---- MODULE Spec2Model ----
(***************************************************************************)
(* Calendar puzzle: board geometry, piece catalog, placement generation,   *)
(* exact-cover matrix construction and the Dancing Links (DLX) solver.     *)
(*                                                                         *)
(* Objects of the Python program are modelled in an arena: the root header *)
(* of a DLXSolver is node 0, the ColumnNode with name i is node i + 1 and  *)
(* the Node objects made by add_row follow in creation order.  The fields  *)
(* left/right/up/down/size/column/row_id/name are functions over the node  *)
(* ids, held together in the record `solver`.                              *)
(*                                                                         *)
(* Twelve specifications share the tables and the actions of the solver:   *)
(*   Spec           - a client builds any small matrix with add_row and    *)
(*                    calls solve() or solve_one() on it, once;            *)
(*   SpecReuse      - the same client calls solve() / solve_one() on one   *)
(*                    solver more than once;                               *)
(*   SpecDate       - a client calls solve_for_date for dates of a small   *)
(*                    board;                                               *)
(*   SpecBoard      - a client calls playable_cells_for_date with any      *)
(*                    argument;                                            *)
(*   SpecPlacements - a client computes the orientations of the catalog    *)
(*                    and the placements of any date of the full board;    *)
(*   SpecFull       - a client calls solve_for_date(1, 1, find_all) on the *)
(*                    full board;                                          *)
(*   SpecLive       - Spec with the fairness of a client that runs every   *)
(*                    call to its end;                                     *)
(*   SpecExhaust    - the client of Spec only calls solve() and takes      *)
(*                    every solution, on one solver more than once;        *)
(*   SpecSteps      - a client builds any small matrix and calls solve()   *)
(*                    or collects and processes the events of              *)
(*                    solve_steps() as VizState does;                      *)
(*   SpecTrace      - a client builds a small matrix and collects the      *)
(*                    events of solve_steps() to the end;                  *)
(*   SpecCalls      - a client calls the functions of board.py, pieces.py, *)
(*                    placements.py and solver.py in any order and keeps   *)
(*                    what they return;                                    *)
(*   SpecViz        - VizState(month, day) on the full board.              *)
(***************************************************************************)
EXTENDS Integers, Sequences, FiniteSets, TLC

VARIABLES
    MONTH_COORDS,   \* board.py: month -> cell
    DAY_COORDS,     \* board.py: day -> cell
    ILLEGAL_CELLS,  \* board.py: set of blocked cells
    PIECE_SHAPES,   \* pieces.py: ordered dict, a sequence of <<tag, shape>>
    solver,         \* the DLXSolver object (link structure)
    matrix,         \* the column sets handed to add_row, by row id + 1
    args,           \* solver.py: month, day, find_all of the current call
    placements,     \* solver.py: the placement list of the current call
    piece_orients,  \* solver.py: the orientation lists of the current call
    column_labels,  \* solver.py: the column labels of the current call
    solution,       \* dlx.py solve(), solve_steps(): the list `solution`
    stack,          \* dlx.py: the frames of the recursive search()
    gen,            \* state of the generator of solve() / solve_steps()
    yielded,        \* the row-id lists the generator has yielded so far
    op,             \* the operation the client is executing
    log,            \* the finished calls of the client, oldest first
    selected,       \* the row ids solve() has appended to `solution`
    history,        \* ui_viz.py: the events collected from solve_steps()
    raw_pos,        \* process_history: the events of raw_events consumed
    processed,      \* process_history: the list `processed`
    context_stack,  \* process_history: the list `context_stack`
    heap,           \* the set objects made by calls a client keeps results of
    num_piece_cols  \* ui_viz.py: VizState.num_piece_cols

vars == <<MONTH_COORDS, DAY_COORDS, ILLEGAL_CELLS, PIECE_SHAPES, solver,
          matrix, args, placements, piece_orients, column_labels, solution,
          stack, gen, yielded, op, log, selected, history, raw_pos,
          processed, context_stack, heap, num_piece_cols>>

\* the locals of solve_for_date and build_exact_cover
call == <<args, placements, piece_orients, column_labels>>

tables == <<MONTH_COORDS, DAY_COORDS, ILLEGAL_CELLS, PIECE_SHAPES>>

\* the event list of VizState and the locals of process_history
trace == <<history, raw_pos, processed, context_stack>>

-----------------------------------------------------------------------------
(* Bounds of the exploration *)

MaxCols == 3      \* Spec: a matrix has at most MaxCols columns
MaxRows == 3      \* Spec: a matrix has at most MaxRows rows
MaxNodes == 6     \* Spec: the rows of a matrix have at most MaxNodes nodes
MaxDay == 3       \* SpecDate: the board has the cells of days 1..MaxDay
MaxPieces == 3    \* SpecDate: the catalog has the last MaxPieces pieces
MaxCalls == 2     \* SpecDate: calls of solve_for_date for the date
ReuseCols == 2    \* SpecReuse: a matrix has at most ReuseCols columns
ReuseRows == 2    \* SpecReuse: a matrix has at most ReuseRows rows
MaxRuns == 2      \* SpecReuse: solve()/solve_one() calls on one solver
Slack == 2        \* SpecBoard: arguments reach Slack beyond the tables' keys
MaxCollected == 2 \* SpecFull: solutions a find_all call is followed for
StepCols == 3     \* SpecSteps: a matrix has at most StepCols columns
StepRows == 3     \* SpecSteps: a matrix has at most StepRows rows
StepNodes == 5    \* SpecSteps: the rows of a matrix have at most StepNodes nodes
TraceCols == 4    \* SpecTrace: a matrix has at most TraceCols columns
TraceRows == 3    \* SpecTrace: a matrix has at most TraceRows rows
TraceNodes == 5   \* SpecTrace: the rows of a matrix have at most TraceNodes nodes
SeqCalls == 3     \* SpecCalls: calls the client makes

-----------------------------------------------------------------------------
(* board.py and pieces.py: the static tables as the source writes them *)

BOARD_ROWS == 7
BOARD_COLS == 7

MonthCoords ==
    [m \in 1..12 |->
        CASE m = 1 -> <<0, 0>> [] m = 2 -> <<0, 1>> [] m = 3 -> <<0, 2>>
          [] m = 4 -> <<0, 3>> [] m = 5 -> <<0, 4>> [] m = 6 -> <<0, 5>>
          [] m = 7 -> <<1, 0>> [] m = 8 -> <<1, 1>> [] m = 9 -> <<1, 2>>
          [] m = 10 -> <<1, 3>> [] m = 11 -> <<1, 4>> [] m = 12 -> <<1, 5>>]

DayCoords ==
    [d \in 1..31 |->
        CASE d = 1 -> <<2, 0>> [] d = 2 -> <<2, 1>> [] d = 3 -> <<2, 2>>
          [] d = 4 -> <<2, 3>> [] d = 5 -> <<2, 4>> [] d = 6 -> <<2, 5>>
          [] d = 7 -> <<2, 6>> [] d = 8 -> <<3, 0>> [] d = 9 -> <<3, 1>>
          [] d = 10 -> <<3, 2>> [] d = 11 -> <<3, 3>> [] d = 12 -> <<3, 4>>
          [] d = 13 -> <<3, 5>> [] d = 14 -> <<3, 6>> [] d = 15 -> <<4, 0>>
          [] d = 16 -> <<4, 1>> [] d = 17 -> <<4, 2>> [] d = 18 -> <<4, 3>>
          [] d = 19 -> <<4, 4>> [] d = 20 -> <<4, 5>> [] d = 21 -> <<4, 6>>
          [] d = 22 -> <<5, 0>> [] d = 23 -> <<5, 1>> [] d = 24 -> <<5, 2>>
          [] d = 25 -> <<5, 3>> [] d = 26 -> <<5, 4>> [] d = 27 -> <<5, 5>>
          [] d = 28 -> <<5, 6>> [] d = 29 -> <<6, 2>> [] d = 30 -> <<6, 3>>
          [] d = 31 -> <<6, 4>>]

IllegalCells ==
    {<<0, 6>>, <<1, 6>>, <<6, 0>>, <<6, 1>>, <<6, 5>>, <<6, 6>>}

\* the dict literal PIECE_SHAPES in insertion order, as <<tag, shape>> pairs
PieceShapes ==
    << <<"A", {<<0, 0>>, <<0, 1>>, <<1, 0>>, <<1, 1>>}>>,
       <<"B", {<<0, 0>>, <<0, 1>>, <<0, 2>>, <<0, 3>>, <<1, 0>>}>>,
       <<"C", {<<0, 2>>, <<1, 0>>, <<1, 1>>, <<1, 2>>, <<2, 0>>}>>,
       <<"D", {<<0, 1>>, <<1, 0>>, <<1, 1>>, <<1, 2>>, <<2, 1>>}>>,
       <<"E", {<<0, 1>>, <<1, 0>>, <<1, 1>>, <<2, 0>>}>>,
       <<"F", {<<0, 0>>, <<0, 1>>, <<0, 2>>, <<1, 0>>, <<1, 2>>}>>,
       <<"G", {<<0, 0>>, <<0, 1>>, <<0, 2>>, <<1, 0>>, <<1, 1>>}>>,
       <<"H", {<<0, 0>>, <<0, 1>>, <<0, 2>>, <<1, 0>>}>>,
       <<"I", {<<0, 0>>, <<0, 1>>, <<0, 2>>, <<1, 1>>}>> >>

\* the module-level state of board.py and pieces.py after import
InitTables ==
    /\ MONTH_COORDS = MonthCoords
    /\ DAY_COORDS = DayCoords
    /\ ILLEGAL_CELLS = IllegalCells
    /\ PIECE_SHAPES = PieceShapes

-----------------------------------------------------------------------------
(* board.py *)

\* the outcome of a call: a returned value, or a raised exception
Returned(v) == [raised |-> "", value |-> v]

Raised(exc) == [raised |-> exc, value |-> {}]

\* set(d.values())
Values(d) == {d[k] : k \in DOMAIN d}

\* Mutant of all_playable_cells: the cells of the months are left out
all_playable_cells_days == Values(DAY_COORDS)

\* all_playable_cells
all_playable_cells == Values(MONTH_COORDS) \cup Values(DAY_COORDS)

\* Mutant of playable_cells_for_date: the cell of the day is not discarded
playable_cells_for_date_keep_day(month, day) ==
    IF month \notin DOMAIN MONTH_COORDS THEN Raised("KeyError")
    ELSE IF day \notin DOMAIN DAY_COORDS THEN Raised("KeyError")
    ELSE Returned(all_playable_cells \ {MONTH_COORDS[month]})

\* Mutant of playable_cells_for_date: the month is looked up with a default,
\* a month that is not a key discards nothing
playable_cells_for_date_get(month, day) ==
    IF day \notin DOMAIN DAY_COORDS THEN Raised("KeyError")
    ELSE Returned((all_playable_cells
                     \ {MONTH_COORDS[m] : m \in {month} \cap DOMAIN MONTH_COORDS})
                    \ {DAY_COORDS[day]})

\* playable_cells_for_date: MONTH_COORDS[month] and DAY_COORDS[day] raise
\* KeyError for a key that is not in the dict, before anything is discarded
playable_cells_for_date(month, day) ==
    IF month \notin DOMAIN MONTH_COORDS THEN Raised("KeyError")
    ELSE IF day \notin DOMAIN DAY_COORDS THEN Raised("KeyError")
    ELSE Returned((all_playable_cells \ {MONTH_COORDS[month]})
                    \ {DAY_COORDS[day]})

-----------------------------------------------------------------------------
(* pieces.py *)

Min(S) == CHOOSE x \in S : \A y \in S : x <= y

Max(S) == CHOOSE x \in S : \A y \in S : x >= y

\* _normalize
_normalize(shape) ==
    LET min_r == Min({c[1] : c \in shape})
        min_c == Min({c[2] : c \in shape})
    IN {<<c[1] - min_r, c[2] - min_c>> : c \in shape}

\* _rotate90: (r, c) -> (c, -r)
_rotate90(shape) == {<<c[2], -c[1]>> : c \in shape}

\* _flip_horizontal: (r, c) -> (r, -c)
_flip_horizontal(shape) == {<<c[1], -c[2]>> : c \in shape}

\* Mutant of Variants: the loops run twice, two rotations are missing on
\* each side
VariantsTwoRotations(shape) ==
    LET r1 == _rotate90(shape)
        r2 == _rotate90(r1)
        f0 == _flip_horizontal(shape)
        f1 == _rotate90(f0)
        f2 == _rotate90(f1)
    IN <<shape, r1, r2, f0, f1, f2>>

\* generate_orientations, the list `variants`
Variants(shape) ==
    LET r1 == _rotate90(shape)
        r2 == _rotate90(r1)
        r3 == _rotate90(r2)
        f0 == _flip_horizontal(shape)
        f1 == _rotate90(f0)
        f2 == _rotate90(f1)
        f3 == _rotate90(f2)
    IN <<shape, r1, r2, r3, f0, f1, f2, f3>>

\* Mutant of UniqueNormalized: every variant is appended, seen or not
RECURSIVE UniqueNormalizedAll(_, _)
UniqueNormalizedAll(variants, seen) ==
    IF variants = <<>> THEN <<>>
    ELSE <<_normalize(Head(variants))>>
         \o UniqueNormalizedAll(Tail(variants), seen)

\* generate_orientations, the loop `for v in variants` with its `seen` set
RECURSIVE UniqueNormalized(_, _)
UniqueNormalized(variants, seen) ==
    IF variants = <<>> THEN <<>>
    ELSE LET norm == _normalize(Head(variants))
         IN IF norm \in seen THEN UniqueNormalized(Tail(variants), seen)
            ELSE <<norm>> \o UniqueNormalized(Tail(variants),
                                              seen \cup {norm})

\* generate_orientations
generate_orientations(shape) == UniqueNormalized(Variants(shape), {})

\* all_piece_orientations: a dict in the key order of PIECE_SHAPES
all_piece_orientations ==
    [i \in 1..Len(PIECE_SHAPES) |->
        <<PIECE_SHAPES[i][1], generate_orientations(PIECE_SHAPES[i][2])>>]

-----------------------------------------------------------------------------
(* placements.py *)

\* the order of tuples (r, c) in Python
CellLess(a, b) == a[1] < b[1] \/ (a[1] = b[1] /\ a[2] < b[2])

\* Mutant of SortedCells: the cells are ordered by column, then by row
RECURSIVE SortedCellsByColumn(_)
SortedCellsByColumn(S) ==
    IF S = {} THEN <<>>
    ELSE LET lo == CHOOSE x \in S :
                      \A y \in S \ {x} : CellLess(<<x[2], x[1]>>, <<y[2], y[1]>>)
         IN <<lo>> \o SortedCellsByColumn(S \ {lo})

\* tuple(sorted(placed))
RECURSIVE SortedCells(_)
SortedCells(S) ==
    IF S = {} THEN <<>>
    ELSE LET lo == CHOOSE x \in S : \A y \in S \ {x} : CellLess(x, y)
         IN <<lo>> \o SortedCells(S \ {lo})

\* Placement(piece=..., cells=...)
Placement(piece, cells) == [piece |-> piece, cells |-> cells]

\* Mutant of RangeLen: the last translation of the range is left out
RangeLenShort(n) == IF n > 1 THEN n - 1 ELSE 0

\* range(n)
RangeLen(n) == IF n > 0 THEN n ELSE 0

\* Mutant of PlacementsOfShape: the loop over dc is the outer loop
RECURSIVE PlacementsOfShapeColumnMajor(_, _, _, _)
PlacementsOfShapeColumnMajor(piece_name, shape, cell_set, k) ==
    LET max_r == Max({c[1] : c \in shape})
        max_c == Max({c[2] : c \in shape})
        nr == RangeLen(BOARD_ROWS - max_r)
        nc == RangeLen(BOARD_COLS - max_c)
    IN IF k >= nr * nc THEN <<>>
       ELSE LET dr == k % nr
                dc == k \div nr
                placed == {<<c[1] + dr, c[2] + dc>> : c \in shape}
                rest == PlacementsOfShapeColumnMajor(piece_name, shape,
                                                     cell_set, k + 1)
            IN IF placed \subseteq cell_set
               THEN <<Placement(piece_name, SortedCells(placed))>> \o rest
               ELSE rest

\* the loops over dr and dc for one orientation, from translation number k on
RECURSIVE PlacementsOfShape(_, _, _, _)
PlacementsOfShape(piece_name, shape, cell_set, k) ==
    LET max_r == Max({c[1] : c \in shape})
        max_c == Max({c[2] : c \in shape})
        nr == RangeLen(BOARD_ROWS - max_r)
        nc == RangeLen(BOARD_COLS - max_c)
    IN IF k >= nr * nc THEN <<>>
       ELSE LET dr == k \div nc
                dc == k % nc
                placed == {<<c[1] + dr, c[2] + dc>> : c \in shape}
                rest == PlacementsOfShape(piece_name, shape, cell_set, k + 1)
            IN IF placed \subseteq cell_set
               THEN <<Placement(piece_name, SortedCells(placed))>> \o rest
               ELSE rest

\* the loop `for shape in orientations`
RECURSIVE PlacementsOfPiece(_, _, _)
PlacementsOfPiece(piece_name, orientations, cell_set) ==
    IF orientations = <<>> THEN <<>>
    ELSE PlacementsOfShape(piece_name, Head(orientations), cell_set, 0)
         \o PlacementsOfPiece(piece_name, Tail(orientations), cell_set)

\* generate_placements: the loop over piece_orientations.items()
RECURSIVE generate_placements(_, _)
generate_placements(playable_cells, piece_orientations) ==
    IF piece_orientations = <<>> THEN <<>>
    ELSE PlacementsOfPiece(Head(piece_orientations)[1],
                           Head(piece_orientations)[2], playable_cells)
         \o generate_placements(playable_cells, Tail(piece_orientations))

-----------------------------------------------------------------------------
(* The set objects of board.py and pieces.py.  A Python set is a mutable   *)
(* object: `heap` holds the sets that calls have made and that a client    *)
(* can reach, and the id of an object is its index in `heap`.  A call is   *)
(* modelled by the heap it leaves, the exception it raised, if any, and    *)
(* the ids of the sets it returned.                                        *)

\* Mutant of playable_cells_for_date_obj: the playable cells are kept in one
\* set, made by the first call, and the date is discarded from that set
playable_cells_for_date_cached(h, month, day) ==
    LET a == IF h = <<>> THEN <<all_playable_cells>> ELSE h
    IN IF month \notin DOMAIN MONTH_COORDS
       THEN [heap |-> a, raised |-> "KeyError", refs |-> <<>>]
       ELSE IF day \notin DOMAIN DAY_COORDS
       THEN [heap |-> a, raised |-> "KeyError", refs |-> <<>>]
       ELSE [heap |-> [a EXCEPT ![1] = (@ \ {MONTH_COORDS[month]})
                                            \ {DAY_COORDS[day]}],
             raised |-> "", refs |-> <<1>>]

\* playable_cells_for_date, lines 79-84: all_playable_cells, line 73, makes
\* a new set, the union; .copy() makes a second new set; the two lookups
\* may raise KeyError; the two cells are discarded from the copy, which is
\* returned
playable_cells_for_date_obj(h, month, day) ==
    LET a == Append(h, all_playable_cells)
        c == Append(a, a[Len(a)])
        cells == Len(c)
    IN IF month \notin DOMAIN MONTH_COORDS
       THEN [heap |-> c, raised |-> "KeyError", refs |-> <<>>]
       ELSE IF day \notin DOMAIN DAY_COORDS
       THEN [heap |-> c, raised |-> "KeyError", refs |-> <<>>]
       ELSE [heap |-> [c EXCEPT ![cells] = (@ \ {MONTH_COORDS[month]})
                                                \ {DAY_COORDS[day]}],
             raised |-> "", refs |-> <<cells>>]

\* all_piece_orientations, line 65, from the i-th piece of PIECE_SHAPES on:
\* generate_orientations, lines 39-60, only reads the shape stored in the
\* table, and every member of its result is a new set, set(norm).  The dict
\* maps each tag to the ids of its orientations.
RECURSIVE all_piece_orientations_obj(_, _)
all_piece_orientations_obj(h, i) ==
    IF i > Len(PIECE_SHAPES) THEN [heap |-> h, dict |-> <<>>, refs |-> <<>>]
    ELSE LET made == generate_orientations(PIECE_SHAPES[i][2])
             ids == [j \in 1..Len(made) |-> Len(h) + j]
             rest == all_piece_orientations_obj(h \o made, i + 1)
         IN [heap |-> rest.heap,
             dict |-> << <<PIECE_SHAPES[i][1], ids>> >> \o rest.dict,
             refs |-> ids \o rest.refs]

-----------------------------------------------------------------------------
(* dlx.py *)

Range(f) == {f[i] : i \in DOMAIN f}

\* self.header
header == 0

\* DLXSolver.__init__: the header and num_columns column headers, linked in
\* a circular doubly-linked list; every up/down points to the node itself.
DLXSolver(num_columns) ==
    [columns |-> [i \in 1..num_columns |-> i],
     name    |-> [n \in 0..num_columns |-> n - 1],
     size    |-> [n \in 0..num_columns |-> 0],
     left    |-> [n \in 0..num_columns |-> IF n = 0 THEN num_columns ELSE n - 1],
     right   |-> [n \in 0..num_columns |-> IF n = num_columns THEN 0 ELSE n + 1],
     up      |-> [n \in 0..num_columns |-> n],
     down    |-> [n \in 0..num_columns |-> n],
     column  |-> <<>>,
     row_id  |-> <<>>]

\* The id of the next object to be created.
NewNode(s) == Cardinality(DOMAIN s.left)

\* Mutant of SortedInts: the indices in descending order
RECURSIVE SortedIntsDescending(_)
SortedIntsDescending(S) ==
    IF S = {} THEN <<>>
    ELSE LET hi == CHOOSE x \in S : \A y \in S : x >= y
         IN <<hi>> \o SortedIntsDescending(S \ {hi})

\* sorted(column_indices) for a set of column indices
RECURSIVE SortedInts(_)
SortedInts(S) ==
    IF S = {} THEN <<>>
    ELSE LET lo == CHOOSE x \in S : \A y \in S : x <= y
         IN <<lo>> \o SortedInts(S \ {lo})

\* add_row, one iteration of `for c_idx in sorted(column_indices)`
AddNode(s, row_id, c_idx, first_node, prev) ==
    LET col  == s.columns[c_idx + 1]
        node == NewNode(s)
        s1 == [s EXCEPT !.column = node :> col @@ @,
                        !.row_id = node :> row_id @@ @,
                        !.left   = node :> node @@ @,
                        !.right  = node :> node @@ @,
                        !.up     = node :> node @@ @,
                        !.down   = node :> node @@ @]
        s2 == [s1 EXCEPT !.down[node] = col]
        s3 == [s2 EXCEPT !.up[node] = s2.up[col]]
        s4 == [s3 EXCEPT !.down[s3.up[col]] = node]
        s5 == [s4 EXCEPT !.up[col] = node]
        s6 == [s5 EXCEPT !.size[col] = @ + 1]
        fst == IF first_node = -1 THEN node ELSE first_node
    IN  IF prev = -1 THEN s6
        ELSE LET s7 == [s6 EXCEPT !.left[node] = prev]
                 s8 == [s7 EXCEPT !.right[node] = fst]
                 s9 == [s8 EXCEPT !.right[prev] = node]
             IN [s9 EXCEPT !.left[fst] = node]

RECURSIVE AddNodes(_, _, _, _, _)
AddNodes(s, row_id, cs, first_node, prev) ==
    IF cs = <<>> THEN s
    ELSE LET node == NewNode(s)
         IN AddNodes(AddNode(s, row_id, Head(cs), first_node, prev), row_id,
                     Tail(cs), IF first_node = -1 THEN node ELSE first_node,
                     node)

\* DLXSolver.add_row
add_row(s, row_id, column_indices) ==
    AddNodes(s, row_id, SortedInts(column_indices), -1, -1)

\* Mutant of CoverNodes: the sizes are decremented but the nodes stay linked
RECURSIVE CoverNodesSizeOnly(_, _, _)
CoverNodesSizeOnly(s, row, node) ==
    IF node = row THEN s
    ELSE LET s3 == [s EXCEPT !.size[s.column[node]] = @ - 1]
         IN CoverNodesSizeOnly(s3, row, s3.right[node])

\* Mutant of CoverNodes: only the up link of the node below is redirected
RECURSIVE CoverNodesOneWay(_, _, _)
CoverNodesOneWay(s, row, node) ==
    IF node = row THEN s
    ELSE LET s1 == [s EXCEPT !.up[s.down[node]] = s.up[node]]
             s3 == [s1 EXCEPT !.size[s1.column[node]] = @ - 1]
         IN CoverNodesOneWay(s3, row, s3.right[node])

\* _cover, inner loop: unlink every other node of the row from its column
RECURSIVE CoverNodes(_, _, _)
CoverNodes(s, row, node) ==
    IF node = row THEN s
    ELSE LET s1 == [s EXCEPT !.up[s.down[node]] = s.up[node]]
             s2 == [s1 EXCEPT !.down[s1.up[node]] = s1.down[node]]
             s3 == [s2 EXCEPT !.size[s2.column[node]] = @ - 1]
         IN CoverNodes(s3, row, s3.right[node])

\* Mutant of CoverRows: the inner loop starts at the row's own node, so the
\* node in the covered column is unlinked as well
RECURSIVE CoverRowsWholeRow(_, _, _)
CoverRowsWholeRow(s, col, row) ==
    IF row = col THEN s
    ELSE LET s1 == [s EXCEPT !.up[s.down[row]] = s.up[row]]
             s2 == [s1 EXCEPT !.down[s1.up[row]] = s1.down[row]]
             s3 == [s2 EXCEPT !.size[col] = @ - 1]
             s4 == CoverNodes(s3, row, s3.right[row])
         IN CoverRowsWholeRow(s4, col, s.down[row])

\* Mutant of CoverRows: `if` for `while`, only the first row is unlinked
CoverRowsFirstOnly(s, col, row) ==
    IF row = col THEN s ELSE CoverNodes(s, row, s.right[row])

\* _cover, outer loop over the rows of the column, top to bottom
RECURSIVE CoverRows(_, _, _)
CoverRows(s, col, row) ==
    IF row = col THEN s
    ELSE LET s1 == CoverNodes(s, row, s.right[row])
         IN CoverRows(s1, col, s1.down[row])

\* Mutant of _cover: the column leaves the header list, its rows stay in
\* the other columns
_coverHeaderOnly(s, col) ==
    LET s1 == [s EXCEPT !.left[s.right[col]] = s.left[col]]
    IN [s1 EXCEPT !.right[s1.left[col]] = s1.right[col]]

\* DLXSolver._cover
_cover(s, col) ==
    LET s1 == [s EXCEPT !.left[s.right[col]] = s.left[col]]
        s2 == [s1 EXCEPT !.right[s1.left[col]] = s1.right[col]]
    IN CoverRows(s2, col, s2.down[col])

\* Mutant of UncoverNodes: the size of the column is not incremented
RECURSIVE UncoverNodesNoSize(_, _, _)
UncoverNodesNoSize(s, row, node) ==
    IF node = row THEN s
    ELSE LET s2 == [s EXCEPT !.up[s.down[node]] = node]
             s3 == [s2 EXCEPT !.down[s2.up[node]] = node]
         IN UncoverNodesNoSize(s3, row, s3.left[node])

\* _uncover, inner loop: relink the other nodes of the row, right to left
RECURSIVE UncoverNodes(_, _, _)
UncoverNodes(s, row, node) ==
    IF node = row THEN s
    ELSE LET s1 == [s EXCEPT !.size[s.column[node]] = @ + 1]
             s2 == [s1 EXCEPT !.up[s1.down[node]] = node]
             s3 == [s2 EXCEPT !.down[s2.up[node]] = node]
         IN UncoverNodes(s3, row, s3.left[node])

\* _uncover, outer loop over the rows of the column, bottom to top
RECURSIVE UncoverRows(_, _, _)
UncoverRows(s, col, row) ==
    IF row = col THEN s
    ELSE LET s1 == UncoverNodes(s, row, s.left[row])
         IN UncoverRows(s1, col, s1.up[row])

\* _uncover, the last two statements: put the header back in the list
RelinkHeader(s, col) ==
    LET s1 == [s EXCEPT !.left[s.right[col]] = col]
    IN [s1 EXCEPT !.right[s1.left[col]] = col]

\* DLXSolver._uncover
_uncover(s, col) == RelinkHeader(UncoverRows(s, col, s.up[col]), col)

\* Mutant of ChooseFrom: a later column of the same size replaces the best
RECURSIVE ChooseFromLast(_, _, _)
ChooseFromLast(s, c, best) ==
    IF c = header THEN best
    ELSE ChooseFromLast(s, s.right[c],
                        IF s.size[c] <= s.size[best] THEN c ELSE best)

\* _choose_column, the while loop
RECURSIVE ChooseFrom(_, _, _)
ChooseFrom(s, c, best) ==
    IF c = header THEN best
    ELSE ChooseFrom(s, s.right[c],
                    IF s.size[c] < s.size[best] THEN c ELSE best)

\* DLXSolver._choose_column
_choose_column(s) == ChooseFrom(s, s.right[header], s.right[header])

\* [node.row_id for node in solution]
RowIds(s, sol) == [i \in 1..Len(sol) |-> s.row_id[sol[i]]]

-----------------------------------------------------------------------------
(* dlx.py, solve(): the generator.  A frame of search() is                 *)
(* [pc, column, row, node]; pc names the statement the frame is at:        *)
(*   "start"   entry of search()                      (line 105)           *)
(*   "yield"   suspended at the yield of a solution   (line 106)           *)
(*   "loop"    the test of `while row is not column`  (line 116)           *)
(*   "cover"   the test of the covering inner loop    (line 120)           *)
(*   "ret"     `yield from search()` has returned     (line 126)           *)
(*   "uncover" the test of the uncovering inner loop  (line 128)           *)

None == -1

Frame(pc, column, row, node) ==
    [pc |-> pc, column |-> column, row |-> row, node |-> node]

Top == stack[Len(stack)]

SetTop(f) == [stack EXCEPT ![Len(stack)] = f]

\* solution.pop(): the list without its last element
PopSolution(sol) == SubSeq(sol, 1, Len(sol) - 1)

\* Mutant of IsSolved: the test of the header list is inverted
IsSolvedInverted(s) == s.right[header] # header

\* `if self.header.right is self.header`
IsSolved(s) == s.right[header] = header

\* Mutant of NextRow: the loop over the rows of the column ends after one row
NextRowStop(s, row) == s.column[row]

\* `row = row.down` at the end of the loop body
NextRow(s, row) == s.down[row]

Running(pc) == gen = "running" /\ stack # <<>> /\ Top.pc = pc

\* return from search(): the frame is dropped; the generator is exhausted
\* when the outermost search() returns
ReturnFromSearch ==
    /\ stack' = SubSeq(stack, 1, Len(stack) - 1)
    /\ gen' = IF Len(stack) = 1 THEN "done" ELSE "running"

\* Mutant of SearchYield: an empty partial solution is not yielded
SearchYieldNonEmpty ==
    /\ Running("start")
    /\ IsSolved(solver)
    /\ yielded' = IF solution = <<>> THEN yielded
                  ELSE Append(yielded, RowIds(solver, solution))
    /\ stack' = SetTop(Frame("yield", None, None, None))
    /\ gen' = "yielded"
    /\ UNCHANGED <<tables, heap, num_piece_cols, trace, selected, solver, matrix, call, solution,
                   op, log>>

\* lines 105-106: no column left, the partial solution is yielded
SearchYield ==
    /\ Running("start")
    /\ IsSolved(solver)
    /\ yielded' = Append(yielded, RowIds(solver, solution))
    /\ stack' = SetTop(Frame("yield", None, None, None))
    /\ gen' = "yielded"
    /\ UNCHANGED <<tables, heap, num_piece_cols, trace, selected, solver, matrix, call, solution, op, log>>

\* line 107: the consumer pulls again, the frame returns after its yield
SearchResume ==
    /\ gen = "yielded"
    /\ ReturnFromSearch
    /\ UNCHANGED <<tables, heap, num_piece_cols, trace, selected, solver, matrix, call, solution, yielded, op,
                   log>>

\* Mutant of SearchDead: the test of the size is missing, the empty column
\* is covered and its loop entered
SearchDeadCovered ==
    /\ Running("start")
    /\ ~IsSolved(solver)
    /\ solver.size[_choose_column(solver)] = 0
    /\ LET column == _choose_column(solver)
           s1 == _cover(solver, column)
       IN /\ solver' = s1
          /\ stack' = SetTop(Frame("loop", column, s1.down[column], None))
    /\ UNCHANGED <<tables, heap, num_piece_cols, trace, selected, matrix, call, solution, gen,
                   yielded, op, log>>

\* lines 109-111: the chosen column has no row left
SearchDead ==
    /\ Running("start")
    /\ ~IsSolved(solver)
    /\ solver.size[_choose_column(solver)] = 0
    /\ ReturnFromSearch
    /\ UNCHANGED <<tables, heap, num_piece_cols, trace, selected, solver, matrix, call, solution, yielded, op,
                   log>>

\* lines 109-115: the chosen column is covered, row = column.down
SearchCover ==
    /\ Running("start")
    /\ ~IsSolved(solver)
    /\ LET column == _choose_column(solver)
           s1 == _cover(solver, column)
       IN /\ solver.size[column] # 0
          /\ solver' = s1
          /\ stack' = SetTop(Frame("loop", column, s1.down[column], None))
    /\ UNCHANGED <<tables, heap, num_piece_cols, trace, selected, matrix, call, solution, gen, yielded, op,
                   log>>

\* lines 116-119: the row is appended to the solution
SearchSelect ==
    /\ Running("loop")
    /\ Top.row # Top.column
    /\ solution' = Append(solution, Top.row)
    /\ selected' = Append(selected, solver.row_id[Top.row])
    /\ stack' = SetTop([Top EXCEPT !.pc = "cover",
                                   !.node = solver.right[Top.row]])
    /\ UNCHANGED <<tables, heap, num_piece_cols, trace, solver, matrix, call, gen, yielded, op, log>>

\* lines 120-122: one more column of the selected row is covered
SearchCoverNode ==
    /\ Running("cover")
    /\ Top.node # Top.row
    /\ LET s1 == _cover(solver, solver.column[Top.node])
       IN /\ solver' = s1
          /\ stack' = SetTop([Top EXCEPT !.node = s1.right[Top.node]])
    /\ UNCHANGED <<tables, heap, num_piece_cols, trace, selected, matrix, call, solution, gen, yielded, op,
                   log>>

\* line 124: `yield from search()`, the recursive call
SearchRecurse ==
    /\ Running("cover")
    /\ Top.node = Top.row
    /\ stack' = Append(SetTop([Top EXCEPT !.pc = "ret"]),
                       Frame("start", None, None, None))
    /\ UNCHANGED <<tables, heap, num_piece_cols, trace, selected, solver, matrix, call, solution, gen, yielded,
                   op, log>>

\* lines 126-127: row = solution.pop(); node = row.left
SearchUnselect ==
    /\ Running("ret")
    /\ LET row == solution[Len(solution)]
       IN stack' = SetTop([Top EXCEPT !.pc = "uncover", !.row = row,
                                      !.node = solver.left[row]])
    /\ solution' = PopSolution(solution)
    /\ UNCHANGED <<tables, heap, num_piece_cols, trace, selected, solver, matrix, call, gen, yielded, op, log>>

\* Mutant of SearchUncoverNode: after a column is uncovered the loop steps to
\* the right, as the covering loop does
SearchUncoverNodeRightwards ==
    /\ Running("uncover")
    /\ Top.node # Top.row
    /\ LET s1 == _uncover(solver, solver.column[Top.node])
       IN /\ solver' = s1
          /\ stack' = SetTop([Top EXCEPT !.node = s1.right[Top.node]])
    /\ UNCHANGED <<tables, heap, num_piece_cols, trace, selected, matrix, call, solution, gen,
                   yielded, op, log>>

\* lines 128-130: one more column of the row is uncovered, right to left
SearchUncoverNode ==
    /\ Running("uncover")
    /\ Top.node # Top.row
    /\ LET s1 == _uncover(solver, solver.column[Top.node])
       IN /\ solver' = s1
          /\ stack' = SetTop([Top EXCEPT !.node = s1.left[Top.node]])
    /\ UNCHANGED <<tables, heap, num_piece_cols, trace, selected, matrix, call, solution, gen, yielded, op,
                   log>>

\* line 132: row = row.down
SearchNextRow ==
    /\ Running("uncover")
    /\ Top.node = Top.row
    /\ stack' = SetTop([Top EXCEPT !.pc = "loop",
                                   !.row = NextRow(solver, Top.row),
                                   !.node = None])
    /\ UNCHANGED <<tables, heap, num_piece_cols, trace, selected, solver, matrix, call, solution, gen, yielded,
                   op, log>>

\* line 134: every row of the column was tried, the column is uncovered
SearchExhausted ==
    /\ Running("loop")
    /\ Top.row = Top.column
    /\ solver' = _uncover(solver, Top.column)
    /\ ReturnFromSearch
    /\ UNCHANGED <<tables, heap, num_piece_cols, trace, selected, matrix, call, solution, yielded, op, log>>

\* The steps the generator takes between two yields
SearchStep ==
    \/ SearchYield
    \/ SearchDead
    \/ SearchCover
    \/ SearchSelect
    \/ SearchCoverNode
    \/ SearchRecurse
    \/ SearchUnselect
    \/ SearchUncoverNode
    \/ SearchNextRow
    \/ SearchExhausted

\* solve(): a new generator with its own empty `solution`
StartGenerator ==
    /\ solution' = <<>>
    /\ stack' = <<Frame("start", None, None, None)>>
    /\ gen' = "running"
    /\ yielded' = <<>>
    /\ selected' = <<>>

\* an abandoned or exhausted generator is dropped with its locals
DropGenerator ==
    /\ solution' = <<>>
    /\ stack' = <<>>
    /\ gen' = "none"
    /\ yielded' = <<>>

-----------------------------------------------------------------------------
(* dlx.py, solve_steps(): the instrumented generator.  Every yield hands   *)
(* one event to the consumer, which appends it to its list (ui_viz.py,     *)
(* line 185) and pulls again; only after a SOLUTION event may the consumer *)
(* stop.  A frame of search() is [pc, column, row, node] with pc:          *)
(*   "init"      before the first statement of solve_steps (line 249)      *)
(*   "start"     entry of search()                        (line 156)       *)
(*   "yield"     suspended at the yield of SOLUTION       (line 157)       *)
(*   "chosen"    the test `if column.size == 0`           (line 189)       *)
(*   "loop"      the test of `while row is not column`    (line 205)       *)
(*   "cover"     the test of the covering inner loop      (line 214)       *)
(*   "ret"       `yield from search(depth + 1)` returned  (line 221)       *)
(*   "uncover"   the test of the uncovering inner loop    (line 229)       *)
(*   "uncovered" the test `if depth > 0`                  (line 242)       *)
(* The depth of a frame is its position in the stack, counted from 0.      *)

Event(type, data, state) == [type |-> type, data |-> data, state |-> state]

\* get_state(), lines 151-152: a new list of the row ids of `solution`
get_state(s, sol) == RowIds(s, sol)

\* Mutant of Emit: the events share one state list, which every emission
\* updates
EmitShared(event) ==
    history' = Append([i \in 1..Len(history) |->
                          [history[i] EXCEPT !.state = event.state]],
                      event)

\* the consumer's `self.history.append(event)`
Emit(event) == history' = Append(history, event)

StepsRunning(pc) == gen = "stepping" /\ stack # <<>> /\ Top.pc = pc

\* return from search(): the frame is dropped; the generator is exhausted
\* when the outermost search() returns
ReturnFromSteps ==
    /\ stack' = SubSeq(stack, 1, Len(stack) - 1)
    /\ gen' = IF Len(stack) = 1 THEN "done" ELSE "stepping"

\* Mutant of StepsScan: a column becomes a candidate only when it is smaller
\* than the best so far
RECURSIVE StepsScanSmallerOnly(_, _, _, _)
StepsScanSmallerOnly(s, c, best_col, candidates) ==
    IF c = header THEN [best_col |-> best_col, candidates |-> candidates]
    ELSE IF s.size[c] < s.size[best_col]
         THEN StepsScanSmallerOnly(s, s.right[c], c,
                  Append(candidates,
                         [name |-> s.name[c], size |-> s.size[c]]))
         ELSE StepsScanSmallerOnly(s, s.right[c], best_col, candidates)

\* Mutant of StepsScan: a later column of the same size replaces best_col
RECURSIVE StepsScanLast(_, _, _, _)
StepsScanLast(s, c, best_col, candidates) ==
    IF c = header THEN [best_col |-> best_col, candidates |-> candidates]
    ELSE StepsScanLast(s, s.right[c],
                       IF s.size[c] <= s.size[best_col] THEN c ELSE best_col,
                       Append(candidates,
                              [name |-> s.name[c], size |-> s.size[c]]))

\* lines 166-174: the scan of the header list for the smallest column
RECURSIVE StepsScan(_, _, _, _)
StepsScan(s, c, best_col, candidates) ==
    IF c = header THEN [best_col |-> best_col, candidates |-> candidates]
    ELSE StepsScan(s, s.right[c],
                   IF s.size[c] < s.size[best_col] THEN c ELSE best_col,
                   Append(candidates,
                          [name |-> s.name[c], size |-> s.size[c]]))

\* Mutant of StepsInit: the outermost search() starts without an INIT event
StepsInitSilent ==
    /\ StepsRunning("init")
    /\ stack' = <<Frame("start", None, None, None)>>
    /\ UNCHANGED <<tables, heap, num_piece_cols, trace, solver, matrix, call, solution, gen,
                   yielded, op, log, selected>>

\* lines 249-254: the INIT event, then the outermost search()
StepsInit ==
    /\ StepsRunning("init")
    /\ Emit(Event("INIT", [message |-> "Starting search..."], <<>>))
    /\ stack' = <<Frame("start", None, None, None)>>
    /\ UNCHANGED <<tables, heap, num_piece_cols, solver, matrix, call, solution, gen, yielded, op,
                   log, selected, raw_pos, processed, context_stack>>

\* lines 156-161: no column left, the SOLUTION event
StepsSolution ==
    /\ StepsRunning("start")
    /\ IsSolved(solver)
    /\ Emit(Event("SOLUTION", [solution |-> get_state(solver, solution)],
                  get_state(solver, solution)))
    /\ stack' = SetTop(Frame("yield", None, None, None))
    /\ gen' = "emitted"
    /\ UNCHANGED <<tables, heap, num_piece_cols, solver, matrix, call, solution, yielded, op, log,
                   selected, raw_pos, processed, context_stack>>

\* line 162: the consumer pulls again, the frame returns after its yield
StepsResume ==
    /\ gen = "emitted"
    /\ ReturnFromSteps
    /\ UNCHANGED <<tables, heap, num_piece_cols, trace, solver, matrix, call, solution, yielded,
                   op, log, selected>>

\* lines 166-187: the column is chosen, the CHOOSE_COL event
StepsChoose ==
    /\ StepsRunning("start")
    /\ ~IsSolved(solver)
    /\ LET scan == StepsScan(solver, solver.right[header],
                             solver.right[header], <<>>)
           best_col == scan.best_col
       IN /\ Emit(Event("CHOOSE_COL",
                        [chosen |-> solver.name[best_col],
                         size |-> solver.size[best_col],
                         candidates |-> scan.candidates,
                         reason |-> "Column "
                                    \o ToString(solver.name[best_col])
                                    \o " has the fewest options ("
                                    \o ToString(solver.size[best_col])
                                    \o ")."],
                        get_state(solver, solution)))
          /\ stack' = SetTop(Frame("chosen", best_col, None, None))
    /\ UNCHANGED <<tables, heap, num_piece_cols, solver, matrix, call, solution, gen, yielded, op,
                   log, selected, raw_pos, processed, context_stack>>

\* lines 189-195: the chosen column has no row left, the BACKTRACK event
StepsDead ==
    /\ StepsRunning("chosen")
    /\ solver.size[Top.column] = 0
    /\ Emit(Event("BACKTRACK",
                  [reason |-> "Column " \o ToString(solver.name[Top.column])
                              \o " has no options left."],
                  get_state(solver, solution)))
    /\ ReturnFromSteps
    /\ UNCHANGED <<tables, heap, num_piece_cols, solver, matrix, call, solution, yielded, op, log,
                   selected, raw_pos, processed, context_stack>>

\* lines 197-204: the column is covered, the COVER_COL event,
\* row = column.down
StepsCover ==
    /\ StepsRunning("chosen")
    /\ solver.size[Top.column] # 0
    /\ LET s1 == _cover(solver, Top.column)
       IN /\ solver' = s1
          /\ Emit(Event("COVER_COL", [col |-> s1.name[Top.column]],
                        get_state(s1, solution)))
          /\ stack' = SetTop([Top EXCEPT !.pc = "loop",
                                         !.row = s1.down[Top.column]])
    /\ UNCHANGED <<tables, heap, num_piece_cols, matrix, call, solution, gen, yielded, op, log,
                   selected, raw_pos, processed, context_stack>>

\* lines 205-213: the row is appended, the SELECT_ROW event, node = row.right
StepsSelect ==
    /\ StepsRunning("loop")
    /\ Top.row # Top.column
    /\ solution' = Append(solution, Top.row)
    /\ Emit(Event("SELECT_ROW", [row |-> solver.row_id[Top.row]],
                  get_state(solver, solution')))
    /\ stack' = SetTop([Top EXCEPT !.pc = "cover",
                                   !.node = solver.right[Top.row]])
    /\ UNCHANGED <<tables, heap, num_piece_cols, solver, matrix, call, gen, yielded, op, log,
                   selected, raw_pos, processed, context_stack>>

\* lines 214-217: one more column of the selected row is covered
StepsCoverNode ==
    /\ StepsRunning("cover")
    /\ Top.node # Top.row
    /\ LET s1 == _cover(solver, solver.column[Top.node])
       IN /\ solver' = s1
          /\ stack' = SetTop([Top EXCEPT !.node = s1.right[Top.node]])
    /\ UNCHANGED <<tables, heap, num_piece_cols, trace, matrix, call, solution, gen, yielded, op,
                   log, selected>>

\* line 219: `yield from search(depth + 1)`, the recursive call
StepsRecurse ==
    /\ StepsRunning("cover")
    /\ Top.node = Top.row
    /\ stack' = Append(SetTop([Top EXCEPT !.pc = "ret"]),
                       Frame("start", None, None, None))
    /\ UNCHANGED <<tables, heap, num_piece_cols, trace, solver, matrix, call, solution, gen,
                   yielded, op, log, selected>>

\* lines 221-228: row = solution.pop(), the UNSELECT_ROW event,
\* node = row.left
StepsUnselect ==
    /\ StepsRunning("ret")
    /\ LET row == solution[Len(solution)]
       IN /\ solution' = PopSolution(solution)
          /\ Emit(Event("UNSELECT_ROW", [row |-> solver.row_id[row]],
                        get_state(solver, solution')))
          /\ stack' = SetTop([Top EXCEPT !.pc = "uncover", !.row = row,
                                         !.node = solver.left[row]])
    /\ UNCHANGED <<tables, heap, num_piece_cols, solver, matrix, call, gen, yielded, op, log,
                   selected, raw_pos, processed, context_stack>>

\* lines 229-231: one more column of the row is uncovered, right to left
StepsUncoverNode ==
    /\ StepsRunning("uncover")
    /\ Top.node # Top.row
    /\ LET s1 == _uncover(solver, solver.column[Top.node])
       IN /\ solver' = s1
          /\ stack' = SetTop([Top EXCEPT !.node = s1.left[Top.node]])
    /\ UNCHANGED <<tables, heap, num_piece_cols, trace, matrix, call, solution, gen, yielded, op,
                   log, selected>>

\* line 233: row = row.down
StepsNextRow ==
    /\ StepsRunning("uncover")
    /\ Top.node = Top.row
    /\ stack' = SetTop([Top EXCEPT !.pc = "loop",
                                   !.row = NextRow(solver, Top.row),
                                   !.node = None])
    /\ UNCHANGED <<tables, heap, num_piece_cols, trace, solver, matrix, call, solution, gen,
                   yielded, op, log, selected>>

\* Mutant of StepsExhausted: the column is uncovered without an event
StepsExhaustedSilent ==
    /\ StepsRunning("loop")
    /\ Top.row = Top.column
    /\ solver' = _uncover(solver, Top.column)
    /\ stack' = SetTop([Top EXCEPT !.pc = "uncovered"])
    /\ UNCHANGED <<tables, heap, num_piece_cols, trace, matrix, call, solution, gen, yielded, op,
                   log, selected>>

\* lines 235-240: every row of the column was tried, the column is
\* uncovered, the UNCOVER_COL event
StepsExhausted ==
    /\ StepsRunning("loop")
    /\ Top.row = Top.column
    /\ LET s1 == _uncover(solver, Top.column)
       IN /\ solver' = s1
          /\ Emit(Event("UNCOVER_COL", [col |-> s1.name[Top.column]],
                        get_state(s1, solution)))
    /\ stack' = SetTop([Top EXCEPT !.pc = "uncovered"])
    /\ UNCHANGED <<tables, heap, num_piece_cols, matrix, call, solution, gen, yielded, op, log,
                   selected, raw_pos, processed, context_stack>>

\* Mutant of StepsBacktrack: the test of the depth is missing
StepsBacktrackAnyDepth ==
    /\ StepsRunning("uncovered")
    /\ Emit(Event("BACKTRACK",
                  [reason |-> "Tried all options for this column, going back."],
                  get_state(solver, solution)))
    /\ ReturnFromSteps
    /\ UNCHANGED <<tables, heap, num_piece_cols, solver, matrix, call, solution, yielded, op, log,
                   selected, raw_pos, processed, context_stack>>

\* lines 242-247: below the outermost call, the BACKTRACK event
StepsBacktrack ==
    /\ StepsRunning("uncovered")
    /\ Len(stack) - 1 > 0
    /\ Emit(Event("BACKTRACK",
                  [reason |-> "Tried all options for this column, going back."],
                  get_state(solver, solution)))
    /\ ReturnFromSteps
    /\ UNCHANGED <<tables, heap, num_piece_cols, solver, matrix, call, solution, yielded, op, log,
                   selected, raw_pos, processed, context_stack>>

\* line 242 with depth = 0: the outermost search() returns without an event
StepsRootReturn ==
    /\ StepsRunning("uncovered")
    /\ Len(stack) - 1 = 0
    /\ ReturnFromSteps
    /\ UNCHANGED <<tables, heap, num_piece_cols, trace, solver, matrix, call, solution, yielded,
                   op, log, selected>>

\* The steps the generator of solve_steps takes by itself while the
\* outermost search() has not returned
StepsSearching ==
    \/ StepsInit
    \/ StepsSolution
    \/ StepsChoose
    \/ StepsDead
    \/ StepsCover
    \/ StepsSelect
    \/ StepsCoverNode
    \/ StepsRecurse
    \/ StepsUnselect
    \/ StepsUncoverNode
    \/ StepsNextRow
    \/ StepsExhausted
    \/ StepsBacktrack

\* The steps the generator of solve_steps takes by itself
StepsStep ==
    \/ StepsSearching
    \/ StepsRootReturn

\* solve_steps(): a new generator with its own empty `solution`
StartSteps ==
    /\ solution' = <<>>
    /\ stack' = <<Frame("init", None, None, None)>>
    /\ gen' = "stepping"

-----------------------------------------------------------------------------
(* A client of DLXSolver: builds a matrix, then calls solve() or           *)
(* solve_one() on it; max_rows, max_nodes and max_runs bound what it does. *)

\* no solve_for_date call is in progress
NoArgs == [month |-> 0, day |-> 0, find_all |-> FALSE]

NoValue == [isNone |-> TRUE, value |-> <<>>]

Value(v) == [isNone |-> FALSE, value |-> v]

Run(name, ended, ret) ==
    [op |-> name, ended |-> ended, yielded |-> yielded, ret |-> ret]

\* solver.add_row(row_id, cols) with the next row id and any set of columns
AddRow(cols, max_rows, max_nodes) ==
    /\ op = "build"
    /\ Len(matrix) < max_rows
    /\ Cardinality(DOMAIN solver.column) + Cardinality(cols) <= max_nodes
    /\ solver' = add_row(solver, Len(matrix), cols)
    /\ matrix' = Append(matrix, cols)
    /\ UNCHANGED <<tables, heap, num_piece_cols, trace, selected, call, solution, stack, gen, yielded, op, log>>

\* gen = solver.solve()
CallSolve(max_runs) ==
    /\ op \in {"build", "idle"}
    /\ Len(log) < max_runs
    /\ op' = "solve"
    /\ StartGenerator
    /\ UNCHANGED <<tables, heap, num_piece_cols, trace, solver, matrix, call, log>>

\* the consumer of solve() asks for the next solution
SolveNext ==
    /\ op = "solve"
    /\ SearchResume

\* the consumer of solve() stops pulling after a solution
SolveStop ==
    /\ op = "solve"
    /\ gen = "yielded"
    /\ log' = Append(log, Run("solve", "abandoned", Value(yielded)))
    /\ op' = "idle"
    /\ DropGenerator
    /\ UNCHANGED <<tables, heap, num_piece_cols, trace, selected, solver, matrix, call>>

\* the generator of solve() is exhausted
SolveEnd ==
    /\ op = "solve"
    /\ gen = "done"
    /\ log' = Append(log, Run("solve", "exhausted", Value(yielded)))
    /\ op' = "idle"
    /\ DropGenerator
    /\ UNCHANGED <<tables, heap, num_piece_cols, trace, selected, solver, matrix, call>>

\* solver.solve_one()
CallSolveOne(max_runs) ==
    /\ op \in {"build", "idle"}
    /\ Len(log) < max_runs
    /\ op' = "solve_one"
    /\ StartGenerator
    /\ UNCHANGED <<tables, heap, num_piece_cols, trace, solver, matrix, call, log>>

\* solve_one, line 140: the first solution is returned, the generator dropped
SolveOneReturn ==
    /\ op = "solve_one"
    /\ gen = "yielded"
    /\ log' = Append(log, Run("solve_one", "abandoned", Value(yielded[1])))
    /\ op' = "idle"
    /\ DropGenerator
    /\ UNCHANGED <<tables, heap, num_piece_cols, trace, selected, solver, matrix, call>>

\* Mutant of SolveOneNone: an empty list is returned when nothing was yielded
SolveOneNoneEmpty ==
    /\ op = "solve_one"
    /\ gen = "done"
    /\ log' = Append(log, Run("solve_one", "exhausted", Value(<<>>)))
    /\ op' = "idle"
    /\ DropGenerator
    /\ UNCHANGED <<tables, heap, num_piece_cols, trace, selected, solver, matrix, call>>

\* solve_one, line 141: no solution, None is returned
SolveOneNone ==
    /\ op = "solve_one"
    /\ gen = "done"
    /\ log' = Append(log, Run("solve_one", "exhausted", NoValue))
    /\ op' = "idle"
    /\ DropGenerator
    /\ UNCHANGED <<tables, heap, num_piece_cols, trace, selected, solver, matrix, call>>

\* it = solver.solve_steps(), consumed by a loop that appends every event
\* to a list (ui_viz.py, lines 183-185)
CallSolveSteps(max_runs) ==
    /\ op \in {"build", "idle"}
    /\ Len(log) < max_runs
    /\ op' = "solve_steps"
    /\ StartSteps
    /\ history' = <<>>
    /\ UNCHANGED <<tables, heap, num_piece_cols, solver, matrix, call, yielded, log, selected,
                   raw_pos, processed, context_stack>>

\* the loop over solve_steps() goes on after a SOLUTION event
CollectNext ==
    /\ op = "solve_steps"
    /\ StepsResume

\* process_history is entered with the collected events, lines 286-289
EnterProcessHistory ==
    /\ op' = "process_history"
    /\ raw_pos' = 0
    /\ processed' = <<>>
    /\ context_stack' = <<>>

\* ui_viz.py, lines 186-189: the loop is left at the first SOLUTION event,
\* the suspended generator is dropped with its locals
CollectBreak ==
    /\ op = "solve_steps"
    /\ gen = "emitted"
    /\ EnterProcessHistory
    /\ solution' = <<>>
    /\ stack' = <<>>
    /\ gen' = "none"
    /\ UNCHANGED <<tables, heap, num_piece_cols, solver, matrix, call, yielded, log, selected,
                   history>>

\* ui_viz.py, lines 184 and 189: the generator is exhausted, the loop ends
CollectEnd ==
    /\ op = "solve_steps"
    /\ gen = "done"
    /\ EnterProcessHistory
    /\ UNCHANGED <<tables, heap, num_piece_cols, solver, matrix, call, solution, stack, gen,
                   yielded, log, selected, history>>

-----------------------------------------------------------------------------
(* ui_viz.py, process_history: one action per branch of the loop body.     *)
(* The events are dicts shared by raw_events and `processed`, so a         *)
(* narrative_ctx stored into an event shows in both lists.                 *)

\* the event the loop of line 291 is at
RawEvent == history[raw_pos + 1]

Processing(etype) ==
    /\ op = "process_history"
    /\ raw_pos < Len(history)
    /\ RawEvent.type = etype

\* event["narrative_ctx"] = ctx
WithNarrative(event, ctx) == ("narrative_ctx" :> ctx) @@ event

\* processed.append(event) and the step of the loop to the next event
Keep(event) ==
    /\ processed' = Append(processed, event)
    /\ history' = [history EXCEPT ![raw_pos + 1] = event]
    /\ raw_pos' = raw_pos + 1

\* context_stack.pop()
PopContext(cs) == SubSeq(cs, 1, Len(cs) - 1)

\* lines 336-346: frames are popped until one of the column was popped
RECURSIVE PopUntil(_, _)
PopUntil(cs, col) ==
    IF cs = <<>> THEN cs
    ELSE IF cs[Len(cs)].col = col THEN PopContext(cs)
    ELSE PopUntil(PopContext(cs), col)

\* lines 295-296
ProcessInit ==
    /\ Processing("INIT")
    /\ Keep(RawEvent)
    /\ UNCHANGED <<tables, heap, num_piece_cols, solver, matrix, call, solution, stack, gen,
                   yielded, op, log, selected, context_stack>>

\* lines 298-305: a frame for the chosen column is pushed
ProcessChooseCol ==
    /\ Processing("CHOOSE_COL")
    /\ context_stack' = Append(context_stack,
                               [col |-> RawEvent.data.chosen,
                                total |-> RawEvent.data.size,
                                current |-> 0])
    /\ Keep(RawEvent)
    /\ UNCHANGED <<tables, heap, num_piece_cols, solver, matrix, call, solution, stack, gen,
                   yielded, op, log, selected>>

\* Mutant of ProcessSelectRow: the event is annotated before the frame
\* counts the option
ProcessSelectRowCountAfter ==
    /\ Processing("SELECT_ROW")
    /\ IF context_stack # <<>>
       THEN LET n == Len(context_stack)
                cs1 == [context_stack EXCEPT ![n].current = @ + 1]
                ctx == context_stack[n]
            IN /\ context_stack' = cs1
               /\ Keep(WithNarrative(RawEvent,
                                     [col |-> ctx.col,
                                      option_idx |-> ctx.current,
                                      total_options |-> ctx.total]))
       ELSE /\ context_stack' = context_stack
            /\ Keep(RawEvent)
    /\ UNCHANGED <<tables, heap, num_piece_cols, solver, matrix, call, solution, stack, gen,
                   yielded, op, log, selected>>

\* lines 307-319: the top frame counts the option, the event is annotated
ProcessSelectRow ==
    /\ Processing("SELECT_ROW")
    /\ IF context_stack # <<>>
       THEN LET n == Len(context_stack)
                cs1 == [context_stack EXCEPT ![n].current = @ + 1]
                ctx == cs1[n]
            IN /\ context_stack' = cs1
               /\ Keep(WithNarrative(RawEvent,
                                     [col |-> ctx.col,
                                      option_idx |-> ctx.current,
                                      total_options |-> ctx.total]))
       ELSE /\ context_stack' = context_stack
            /\ Keep(RawEvent)
    /\ UNCHANGED <<tables, heap, num_piece_cols, solver, matrix, call, solution, stack, gen,
                   yielded, op, log, selected>>

\* Mutant of ProcessBacktrack: the frame of a column without options stays
ProcessBacktrackNoPop ==
    /\ Processing("BACKTRACK")
    /\ IF context_stack # <<>>
       THEN LET ctx == context_stack[Len(context_stack)]
            IN /\ context_stack' = context_stack
               /\ Keep(WithNarrative(RawEvent,
                                     [col |-> ctx.col,
                                      total_options |-> ctx.total]))
       ELSE /\ context_stack' = context_stack
            /\ Keep(RawEvent)
    /\ UNCHANGED <<tables, heap, num_piece_cols, solver, matrix, call, solution, stack, gen,
                   yielded, op, log, selected>>

\* lines 321-334: the event is annotated; the frame of a column without
\* options is popped
ProcessBacktrack ==
    /\ Processing("BACKTRACK")
    /\ IF context_stack # <<>>
       THEN LET ctx == context_stack[Len(context_stack)]
            IN /\ context_stack' = IF ctx.total = 0
                                   THEN PopContext(context_stack)
                                   ELSE context_stack
               /\ Keep(WithNarrative(RawEvent,
                                     [col |-> ctx.col,
                                      total_options |-> ctx.total]))
       ELSE /\ context_stack' = context_stack
            /\ Keep(RawEvent)
    /\ UNCHANGED <<tables, heap, num_piece_cols, solver, matrix, call, solution, stack, gen,
                   yielded, op, log, selected>>

\* lines 336-346: the frames down to the one of the column are popped, the
\* event is not appended
ProcessUncoverCol ==
    /\ Processing("UNCOVER_COL")
    /\ context_stack' = PopUntil(context_stack, RawEvent.data.col)
    /\ raw_pos' = raw_pos + 1
    /\ UNCHANGED <<tables, heap, num_piece_cols, solver, matrix, call, solution, stack, gen,
                   yielded, op, log, selected, history, processed>>

\* lines 348-350
ProcessUnselectRow ==
    /\ Processing("UNSELECT_ROW")
    /\ Keep(RawEvent)
    /\ UNCHANGED <<tables, heap, num_piece_cols, solver, matrix, call, solution, stack, gen,
                   yielded, op, log, selected, context_stack>>

\* lines 352-353
ProcessSolution ==
    /\ Processing("SOLUTION")
    /\ Keep(RawEvent)
    /\ UNCHANGED <<tables, heap, num_piece_cols, solver, matrix, call, solution, stack, gen,
                   yielded, op, log, selected, context_stack>>

\* Mutant of ProcessCoverCol: the COVER_COL event is appended like the others
ProcessCoverColKept ==
    /\ Processing("COVER_COL")
    /\ Keep(RawEvent)
    /\ UNCHANGED <<tables, heap, num_piece_cols, solver, matrix, call, solution, stack, gen,
                   yielded, op, log, selected, context_stack>>

\* line 355: a COVER_COL event matches no branch and is not appended
ProcessCoverCol ==
    /\ Processing("COVER_COL")
    /\ raw_pos' = raw_pos + 1
    /\ UNCHANGED <<tables, heap, num_piece_cols, solver, matrix, call, solution, stack, gen,
                   yielded, op, log, selected, history, processed,
                   context_stack>>

\* One iteration of the loop of process_history
ProcessEvent ==
    \/ ProcessInit
    \/ ProcessChooseCol
    \/ ProcessSelectRow
    \/ ProcessBacktrack
    \/ ProcessUncoverCol
    \/ ProcessUnselectRow
    \/ ProcessSolution
    \/ ProcessCoverCol

\* the Python type of each column label: build_exact_cover, solver.py line
\* 43, makes the list from the sorted keys of PIECE_SHAPES, which are str,
\* and from one f-string for each cell, which is a str
LabelTypes(labels) == [i \in DOMAIN labels |-> "str"]

\* VizState.__init__, lines 218-223: the labels counted from the first one
\* up to the first label for which isinstance(label, tuple) holds
RECURSIVE CountPieceCols(_)
CountPieceCols(types) ==
    IF types = <<>> THEN 0
    ELSE IF Head(types) # "tuple" THEN 1 + CountPieceCols(Tail(types))
    ELSE 0

\* line 357 and ui_viz.py, lines 189-223: self.history = the processed list,
\* the locals of process_history and the exhausted generator are dropped,
\* and the rest of the constructor sets num_piece_cols
ProcessReturn ==
    /\ op = "process_history"
    /\ raw_pos = Len(history)
    /\ history' = processed
    /\ log' = Append(log, [op |-> "solve_steps",
                           ended |-> IF gen = "done" THEN "exhausted"
                                     ELSE "abandoned",
                           yielded |-> history,
                           ret |-> Value(processed)])
    /\ op' = "idle"
    /\ raw_pos' = 0
    /\ processed' = <<>>
    /\ context_stack' = <<>>
    /\ solution' = <<>>
    /\ stack' = <<>>
    /\ gen' = "none"
    /\ num_piece_cols' = CountPieceCols(LabelTypes(column_labels))
    /\ UNCHANGED <<tables, heap, solver, matrix, call, yielded, selected>>

\* the state before the client has made its solver
InitClient ==
    /\ InitTables
    /\ matrix = <<>>
    /\ args = NoArgs
    /\ placements = <<>>
    /\ piece_orients = <<>>
    /\ column_labels = <<>>
    /\ solution = <<>>
    /\ stack = <<>>
    /\ gen = "none"
    /\ yielded = <<>>
    /\ log = <<>>
    /\ selected = <<>>
    /\ history = <<>>
    /\ raw_pos = 0
    /\ processed = <<>>
    /\ context_stack = <<>>
    /\ heap = <<>>
    /\ num_piece_cols = 0

\* solver = DLXSolver(num_columns) for any num_columns up to MaxCols
Init ==
    /\ InitClient
    /\ \E num_columns \in 0..MaxCols : solver = DLXSolver(num_columns)
    /\ op = "build"

\* the client builds a matrix and calls solve() or solve_one() once
Next ==
    \/ \E cols \in SUBSET (0..(Len(solver.columns) - 1)) :
          AddRow(cols, MaxRows, MaxNodes)
    \/ CallSolve(1)
    \/ SolveNext
    \/ SolveStop
    \/ SolveEnd
    \/ CallSolveOne(1)
    \/ SolveOneReturn
    \/ SolveOneNone
    \/ SearchStep

Spec == Init /\ [][Next]_vars

\* SearchStep is enabled exactly while the generator is running: every
\* frame is at one of the statements of search()
SearchStepEnabled == gen = "running"

\* The same client under the scheduling of a Python program: a generator
\* that is being iterated runs on to its next yield or to its end, and a
\* loop whose generator is exhausted ends.  The first conjunct is the weak
\* fairness of SearchStep, WF_vars(SearchStep), with its enabling condition
\* written as the state predicate SearchStepEnabled.
SpecLive ==
    /\ Spec
    /\ []<>(~SearchStepEnabled) \/ []<><<SearchStep>>_vars
    /\ WF_vars(SolveEnd)
    /\ WF_vars(SolveOneNone)

\* solver = DLXSolver(num_columns) for any num_columns up to ReuseCols
InitReuse ==
    /\ InitClient
    /\ \E num_columns \in 0..ReuseCols : solver = DLXSolver(num_columns)
    /\ op = "build"

\* the client builds a matrix and calls solve() or solve_one() on the same
\* solver up to MaxRuns times
NextReuse ==
    \/ \E cols \in SUBSET (0..(Len(solver.columns) - 1)) :
          AddRow(cols, ReuseRows, ReuseRows * ReuseCols)
    \/ CallSolve(MaxRuns)
    \/ SolveNext
    \/ SolveStop
    \/ SolveEnd
    \/ CallSolveOne(MaxRuns)
    \/ SolveOneReturn
    \/ SolveOneNone
    \/ SearchStep

SpecReuse == InitReuse /\ [][NextReuse]_vars

\* the client builds a matrix and runs solve() to its end, up to MaxRuns
\* times on the same solver
NextExhaust ==
    \/ \E cols \in SUBSET (0..(Len(solver.columns) - 1)) :
          AddRow(cols, MaxRows, MaxNodes)
    \/ CallSolve(MaxRuns)
    \/ SolveNext
    \/ SolveEnd
    \/ SearchStep

SpecExhaust == Init /\ [][NextExhaust]_vars

\* solver = DLXSolver(num_columns) for any num_columns up to StepCols
InitSteps ==
    /\ InitClient
    /\ \E num_columns \in 0..StepCols : solver = DLXSolver(num_columns)
    /\ op = "build"

\* the client builds a matrix, may run solve() to its end, and then collects
\* the events of solve_steps(), all of them or up to the first SOLUTION,
\* and hands them to process_history
NextSteps ==
    \/ \E cols \in SUBSET (0..(Len(solver.columns) - 1)) :
          AddRow(cols, StepRows, StepNodes)
    \/ CallSolve(1)
    \/ SearchStep
    \/ SolveNext
    \/ SolveEnd
    \/ CallSolveSteps(2)
    \/ StepsStep
    \/ CollectNext
    \/ CollectBreak
    \/ CollectEnd
    \/ ProcessEvent
    \/ ProcessReturn

SpecSteps == InitSteps /\ [][NextSteps]_vars

InitTrace ==
    /\ InitClient
    /\ \E num_columns \in 0..TraceCols : solver = DLXSolver(num_columns)
    /\ op = "build"

\* the client builds a matrix and collects the events of solve_steps() until
\* the generator is exhausted
NextTrace ==
    \/ \E cols \in SUBSET (0..(Len(solver.columns) - 1)) :
          AddRow(cols, TraceRows, TraceNodes)
    \/ CallSolveSteps(1)
    \/ StepsStep
    \/ CollectNext

SpecTrace == InitTrace /\ [][NextTrace]_vars

-----------------------------------------------------------------------------
(* solver.py *)

\* the order of the piece tags, which are single letters, in sorted()
Ord(name) ==
    CASE name = "A" -> 65 [] name = "B" -> 66 [] name = "C" -> 67
      [] name = "D" -> 68 [] name = "E" -> 69 [] name = "F" -> 70
      [] name = "G" -> 71 [] name = "H" -> 72 [] name = "I" -> 73

\* sorted(piece_orients.keys())
RECURSIVE SortedNames(_)
SortedNames(S) ==
    IF S = {} THEN <<>>
    ELSE LET lo == CHOOSE x \in S : \A y \in S : Ord(x) <= Ord(y)
         IN <<lo>> \o SortedNames(S \ {lo})

\* the position of x in the list, counted from 0
IndexOf(list, x) == (CHOOSE i \in 1..Len(list) : list[i] = x) - 1

\* Mutant of RowColumns: the cell columns are numbered from 0, without the
\* offset num_pieces
RowColumnsNoOffset(placement, piece_names, cells_sorted) ==
    {IndexOf(piece_names, placement.piece)}
    \cup {IndexOf(cells_sorted, placement.cells[i]) :
            i \in 1..Len(placement.cells)}

\* build_exact_cover, lines 47-48: the columns of the row of a placement
RowColumns(placement, piece_names, cells_sorted) ==
    {IndexOf(piece_names, placement.piece)}
    \cup {Len(piece_names) + IndexOf(cells_sorted, placement.cells[i]) :
            i \in 1..Len(placement.cells)}

\* Mutant of NewSolver: one DLXSolver is kept and reused by the next call
NewSolverShared(num_columns) ==
    IF Len(solver.columns) = num_columns /\ log # <<>>
    THEN solver ELSE DLXSolver(num_columns)

\* Mutant of NewSolver: the solver gets one column more than the matrix has
NewSolverExtraColumn(num_columns) == DLXSolver(num_columns + 1)

\* build_exact_cover, line 40: solver = DLXSolver(num_columns)
NewSolver(num_columns) == DLXSolver(num_columns)

\* build_exact_cover, line 29
PieceNames ==
    SortedNames({all_piece_orientations[i][1] :
                    i \in 1..Len(all_piece_orientations)})

\* build_exact_cover, lines 19 and 34
CellsSorted(month, day) ==
    SortedCells(playable_cells_for_date(month, day).value)

\* f"({r},{c})"
CellLabel(cell) ==
    "(" \o ToString(cell[1]) \o "," \o ToString(cell[2]) \o ")"

\* build_exact_cover, line 43
ColumnLabels(piece_names, cells_sorted) ==
    piece_names \o [i \in 1..Len(cells_sorted) |-> CellLabel(cells_sorted[i])]

\* [placements[rid] for rid in sol]
ToPlacements(sol) == [i \in 1..Len(sol) |-> placements[sol[i] + 1]]

\* Mutant of ReturnAll: an empty list of solutions is turned into None
ReturnAllOrNone(sols) ==
    IF sols = <<>> THEN NoValue
    ELSE Value([i \in 1..Len(sols) |-> ToPlacements(sols[i])])

\* solve_for_date, lines 58-61: the list all_solutions
ReturnAll(sols) == Value([i \in 1..Len(sols) |-> ToPlacements(sols[i])])

\* Mutant of ReturnOne: the solution is returned without the enclosing list
ReturnOneFlat(sol) == Value(ToPlacements(sol))

\* solve_for_date, line 66
ReturnOne(sol) == Value(<<ToPlacements(sol)>>)

Call(ret) ==
    [month |-> args.month, day |-> args.day, find_all |-> args.find_all,
     ret |-> ret]

\* solve_for_date(month, day, find_all) enters build_exact_cover, lines
\* 19-43: the placements are generated and an empty solver is made
EnterBuildExactCover(month, day, find_all) ==
    /\ piece_orients' = all_piece_orientations
    /\ placements' =
          generate_placements(playable_cells_for_date(month, day).value,
                              piece_orients')
    /\ column_labels' = ColumnLabels(PieceNames, CellsSorted(month, day))
    /\ solver' = NewSolver(Len(PieceNames) + Len(CellsSorted(month, day)))
    /\ matrix' = <<>>
    /\ args' = [month |-> month, day |-> day, find_all |-> find_all]
    /\ op' = "build_exact_cover"
    /\ UNCHANGED <<tables, heap, num_piece_cols, trace, selected, solution, stack, gen, yielded, log>>

\* the client calls solve_for_date(month, day, find_all), for the date of
\* its earlier calls
CallSolveForDate(month, day, find_all) ==
    /\ op = "idle"
    /\ Len(log) < MaxCalls
    /\ log # <<>> => month = log[1].month /\ day = log[1].day
    /\ EnterBuildExactCover(month, day, find_all)

\* build_exact_cover, lines 46-49: one iteration of the loop over
\* enumerate(placements)
BuildRow ==
    /\ op = "build_exact_cover"
    /\ Len(matrix) < Len(placements)
    /\ LET row_id == Len(matrix)
           cols == RowColumns(placements[row_id + 1], PieceNames,
                              CellsSorted(args.month, args.day))
       IN /\ solver' = add_row(solver, row_id, cols)
          /\ matrix' = Append(matrix, cols)
    /\ UNCHANGED <<tables, heap, num_piece_cols, trace, selected, call, solution, stack, gen, yielded, op, log>>

\* build_exact_cover returns; solve_for_date, lines 57-63, starts the search
BuildReturn ==
    /\ op = "build_exact_cover"
    /\ Len(matrix) = Len(placements)
    /\ op' = "solve_for_date"
    /\ StartGenerator
    /\ UNCHANGED <<tables, heap, num_piece_cols, trace, solver, matrix, call, log>>

\* lines 59-60: the loop over solver.solve() takes the next solution
DateCollect ==
    /\ op = "solve_for_date"
    /\ args.find_all
    /\ SearchResume

\* line 61: return all_solutions
DateReturnAll ==
    /\ op = "solve_for_date"
    /\ args.find_all
    /\ gen = "done"
    /\ log' = Append(log, Call(ReturnAll(yielded)))
    /\ op' = "idle"
    /\ DropGenerator
    /\ UNCHANGED <<tables, heap, num_piece_cols, trace, selected, solver, matrix, call>>

\* lines 63-66 with solve_one, line 140: the first solution is returned
DateReturnOne ==
    /\ op = "solve_for_date"
    /\ ~args.find_all
    /\ gen = "yielded"
    /\ log' = Append(log, Call(ReturnOne(yielded[1])))
    /\ op' = "idle"
    /\ DropGenerator
    /\ UNCHANGED <<tables, heap, num_piece_cols, trace, selected, solver, matrix, call>>

\* lines 63-65 with solve_one, line 141: sol is None, None is returned
DateReturnNone ==
    /\ op = "solve_for_date"
    /\ ~args.find_all
    /\ gen = "done"
    /\ log' = Append(log, Call(NoValue))
    /\ op' = "idle"
    /\ DropGenerator
    /\ UNCHANGED <<tables, heap, num_piece_cols, trace, selected, solver, matrix, call>>

\* the last n entries of a list
LastN(list, n) ==
    IF n >= Len(list) THEN list
    ELSE SubSeq(list, Len(list) - n + 1, Len(list))

\* a board cut down to the cells of the twelve months and of the days
\* 1..MaxDay, with the last MaxPieces pieces of the catalog; with MaxDay = 31
\* and MaxPieces = 9 it is the board of the program
InitDate ==
    /\ MONTH_COORDS = MonthCoords
    /\ DAY_COORDS = [d \in 1..MaxDay |-> DayCoords[d]]
    /\ ILLEGAL_CELLS = IllegalCells
    /\ PIECE_SHAPES = LastN(PieceShapes, MaxPieces)
    /\ solver = DLXSolver(0)
    /\ matrix = <<>>
    /\ args = NoArgs
    /\ placements = <<>>
    /\ piece_orients = <<>>
    /\ column_labels = <<>>
    /\ solution = <<>>
    /\ stack = <<>>
    /\ gen = "none"
    /\ yielded = <<>>
    /\ op = "idle"
    /\ log = <<>>
    /\ selected = <<>>
    /\ history = <<>>
    /\ raw_pos = 0
    /\ processed = <<>>
    /\ context_stack = <<>>
    /\ heap = <<>>
    /\ num_piece_cols = 0

\* the client calls solve_for_date up to MaxCalls times for one date
NextDate ==
    \/ \E month \in DOMAIN MONTH_COORDS, day \in DOMAIN DAY_COORDS,
          find_all \in BOOLEAN : CallSolveForDate(month, day, find_all)
    \/ BuildRow
    \/ BuildReturn
    \/ DateCollect
    \/ DateReturnAll
    \/ DateReturnOne
    \/ DateReturnNone
    \/ SearchStep

SpecDate == InitDate /\ [][NextDate]_vars

\* The client keeps of a finished call its arguments, the exception it
\* raised, if any, the ids of the sets it returned and, for a call that
\* returns no set, the value.

\* the client calls playable_cells_for_date(month, day) and keeps the set
KeepPlayableCells(month, day) ==
    /\ op = "idle"
    /\ Len(log) < SeqCalls
    /\ LET out == playable_cells_for_date_obj(heap, month, day)
       IN /\ heap' = out.heap
          /\ log' = Append(log, [op |-> "playable_cells_for_date",
                                 month |-> month, day |-> day,
                                 raised |-> out.raised, refs |-> out.refs,
                                 ret |-> <<>>])
    /\ UNCHANGED <<tables, num_piece_cols, trace, selected, solver, matrix,
                   call, solution, stack, gen, yielded, op>>

\* the client calls all_piece_orientations(), that is generate_orientations
\* for every shape of the catalog, and keeps the dict
KeepOrientations ==
    /\ op = "idle"
    /\ Len(log) < SeqCalls
    /\ LET out == all_piece_orientations_obj(heap, 1)
       IN /\ heap' = out.heap
          /\ log' = Append(log, [op |-> "all_piece_orientations",
                                 month |-> 0, day |-> 0, raised |-> "",
                                 refs |-> out.refs, ret |-> out.dict])
    /\ UNCHANGED <<tables, num_piece_cols, trace, selected, solver, matrix,
                   call, solution, stack, gen, yielded, op>>

\* the client calls generate_placements with a set and a dict it has kept:
\* the two arguments are only read, and the placements hold tuples of
\* cells, no set
KeepPlacements(k1, k2) ==
    /\ op = "idle"
    /\ Len(log) < SeqCalls
    /\ "refs" \in DOMAIN log[k1]
    /\ log[k1].op = "playable_cells_for_date"
    /\ log[k1].refs # <<>>
    /\ "refs" \in DOMAIN log[k2]
    /\ log[k2].op = "all_piece_orientations"
    /\ LET playable_cells == heap[log[k1].refs[1]]
           dict == log[k2].ret
           piece_orientations ==
               [i \in 1..Len(dict) |->
                   <<dict[i][1],
                     [j \in 1..Len(dict[i][2]) |-> heap[dict[i][2][j]]]>>]
       IN log' = Append(log, [op |-> "generate_placements",
                              month |-> log[k1].month, day |-> log[k1].day,
                              raised |-> "", refs |-> <<>>,
                              ret |-> generate_placements(playable_cells,
                                                          piece_orientations)])
    /\ UNCHANGED <<tables, heap, num_piece_cols, trace, selected, solver,
                   matrix, call, solution, stack, gen, yielded, op>>

\* the arguments of the client's calls: two dates and a day that is not a
\* key
SeqDates == {<<1, 1>>, <<2, 1>>, <<1, 0>>}

\* the client makes up to SeqCalls calls, in any order, on the board of
\* InitDate; solve_for_date(month, day) enters build_exact_cover, and the
\* sets these two make are not reachable after the return
NextCalls ==
    \/ \E date \in SeqDates : KeepPlayableCells(date[1], date[2])
    \/ KeepOrientations
    \/ \E k1, k2 \in 1..Len(log) : KeepPlacements(k1, k2)
    \/ \E date \in SeqDates :
          /\ op = "idle"
          /\ Len(log) < SeqCalls
          /\ date[1] \in DOMAIN MONTH_COORDS
          /\ date[2] \in DOMAIN DAY_COORDS
          /\ EnterBuildExactCover(date[1], date[2], FALSE)
    \/ BuildRow
    \/ BuildReturn
    \/ DateReturnOne
    \/ DateReturnNone
    \/ SearchStep

SpecCalls == InitDate /\ [][NextCalls]_vars

\* the record of a finished call of playable_cells_for_date
Probe(month, day, ret) == [month |-> month, day |-> day, ret |-> ret]

\* the client calls playable_cells_for_date(month, day) and keeps the outcome
CallPlayableCells(month, day) ==
    /\ op \in {"idle", "playable_cells_for_date"}
    /\ op' = "playable_cells_for_date"
    /\ log' = <<Probe(month, day, playable_cells_for_date(month, day))>>
    /\ UNCHANGED <<tables, heap, num_piece_cols, trace, selected, solver, matrix, call, solution, stack, gen,
                   yielded>>

\* the board of the program, before any call
InitBoard ==
    /\ InitClient
    /\ solver = DLXSolver(0)
    /\ op = "idle"

\* the integers up to Slack below the least and above the greatest key
Around(keys) == (Min(keys) - Slack)..(Max(keys) + Slack)

\* the client calls playable_cells_for_date with any integers near the keys
NextBoard ==
    \E month \in Around(DOMAIN MONTH_COORDS), day \in Around(DOMAIN DAY_COORDS) :
        CallPlayableCells(month, day)

SpecBoard == InitBoard /\ [][NextBoard]_vars

\* the client computes the orientations of the catalog and the placements
\* of a date, as build_exact_cover does in lines 19-25
CallGeneratePlacements(month, day) ==
    /\ op = "idle"
    /\ op' = "generate_placements"
    /\ args' = [month |-> month, day |-> day, find_all |-> FALSE]
    /\ piece_orients' = all_piece_orientations
    /\ placements' =
          generate_placements(playable_cells_for_date(month, day).value,
                              piece_orients')
    /\ UNCHANGED <<tables, heap, num_piece_cols, trace, selected, solver, matrix, column_labels, solution, stack,
                   gen, yielded, log>>

\* the client computes the placements of any date of the board
NextPlacements ==
    \E month \in DOMAIN MONTH_COORDS, day \in DOMAIN DAY_COORDS :
        CallGeneratePlacements(month, day)

SpecPlacements == InitBoard /\ [][NextPlacements]_vars

\* the client calls solve_for_date(1, 1, find_all) once on the board of the
\* program; the call with find_all = False is followed to its return, the
\* call with find_all = True, whose search has some 10^5 cover operations,
\* until it has collected MaxCollected solutions
NextFull ==
    \/ \E find_all \in BOOLEAN :
          /\ log = <<>>
          /\ CallSolveForDate(1, 1, find_all)
    \/ BuildRow
    \/ BuildReturn
    \/ Len(yielded) < MaxCollected /\ DateCollect
    \/ DateReturnOne
    \/ SearchStep

SpecFull == InitBoard /\ [][NextFull]_vars

\* VizState(month, day), ui_viz.py lines 172-177, enters build_exact_cover,
\* solver.py lines 19-43
CallVizState(month, day) ==
    /\ op = "idle"
    /\ log = <<>>
    /\ piece_orients' = all_piece_orientations
    /\ placements' =
          generate_placements(playable_cells_for_date(month, day).value,
                              piece_orients')
    /\ column_labels' = ColumnLabels(PieceNames, CellsSorted(month, day))
    /\ solver' = NewSolver(Len(PieceNames) + Len(CellsSorted(month, day)))
    /\ matrix' = <<>>
    /\ args' = [month |-> month, day |-> day, find_all |-> FALSE]
    /\ op' = "VizState"
    /\ UNCHANGED <<tables, heap, num_piece_cols, trace, selected, solution, stack, gen, yielded,
                   log>>

\* build_exact_cover called by VizState, solver.py lines 46-49: one
\* iteration of the loop over enumerate(placements)
VizBuildRow ==
    /\ op = "VizState"
    /\ Len(matrix) < Len(placements)
    /\ LET row_id == Len(matrix)
           cols == RowColumns(placements[row_id + 1], PieceNames,
                              CellsSorted(args.month, args.day))
       IN /\ solver' = add_row(solver, row_id, cols)
          /\ matrix' = Append(matrix, cols)
    /\ UNCHANGED <<tables, heap, num_piece_cols, trace, selected, call, solution, stack, gen,
                   yielded, op, log>>

\* build_exact_cover returns; ui_viz.py lines 181-184: the history is
\* emptied and the loop over solver.solve_steps() starts
VizBuildReturn ==
    /\ op = "VizState"
    /\ Len(matrix) = Len(placements)
    /\ op' = "solve_steps"
    /\ StartSteps
    /\ history' = <<>>
    /\ UNCHANGED <<tables, heap, num_piece_cols, solver, matrix, call, yielded, log, selected,
                   raw_pos, processed, context_stack>>

\* the dates VizState is constructed for
VizDates == {<<1, 1>>, <<3, 2>>}

\* VizState is constructed once, for a date that has a tiling: the loop over
\* solve_steps() is left at the first SOLUTION event, before the outermost
\* search() returns
NextViz ==
    \/ \E date \in VizDates : CallVizState(date[1], date[2])
    \/ VizBuildRow
    \/ VizBuildReturn
    \/ StepsSearching
    \/ CollectBreak
    \/ ProcessEvent
    \/ ProcessReturn

SpecViz == InitBoard /\ [][NextViz]_vars

-----------------------------------------------------------------------------
(* Properties of the DLX solver, checked under Spec *)

\* the columns of the matrix, by index
ColumnIndices == 0..(Len(solver.columns) - 1)

\* the number of listed rows that contain column c
Hits(rids, c) == Cardinality({i \in 1..Len(rids) : c \in matrix[rids[i] + 1]})

NoRepeat(seq) == \A i, j \in 1..Len(seq) : seq[i] = seq[j] => i = j

IsExactCover(rids) ==
    /\ NoRepeat(rids)
    /\ \A c \in ColumnIndices : Hits(rids, c) = 1

\* what the first solve()/solve_one() on the built matrix has yielded so far
FirstRunYielded == IF log = <<>> THEN yielded ELSE log[1].yielded

\* C3: on a matrix built with add_row on a fresh DLXSolver, every row-id list
\* yielded by solve() has no row id twice and hits every column of the solver
\* exactly once.
C3_YieldedIsExactCover ==
    \A i \in 1..Len(FirstRunYielded) : IsExactCover(FirstRunYielded[i])

\* C3 witness: solve() has yielded a cover made of two rows of a matrix with
\* three rows, so one row of the matrix was rejected.
C3_Witness ==
    /\ log = <<>>
    /\ op = "solve"
    /\ Len(matrix) = 3
    /\ \E i \in 1..Len(yielded) : Len(yielded[i]) = 2

\* the row subsets that hit every column exactly once
AllExactCovers ==
    {R \in SUBSET (0..(Len(matrix) - 1)) :
        \A c \in ColumnIndices :
            Cardinality({r \in R : c \in matrix[r + 1]}) = 1}

\* C4: solve() run to exhaustion on a freshly built matrix whose rows all have
\* a column yields every exact cover of the matrix, each exactly once.
C4_YieldsEveryCoverOnce ==
    (/\ log # <<>>
     /\ log[1].op = "solve"
     /\ log[1].ended = "exhausted"
     /\ \A r \in 1..Len(matrix) : matrix[r] # {})
    => /\ {Range(sol) : sol \in Range(log[1].yielded)} = AllExactCovers
       /\ Cardinality(AllExactCovers) = Len(log[1].yielded)

\* C4 witness: an exhausted solve() on a matrix that has two exact covers.
C4_Witness ==
    /\ log # <<>>
    /\ log[1].op = "solve"
    /\ log[1].ended = "exhausted"
    /\ \A r \in 1..Len(matrix) : matrix[r] # {}
    /\ Len(log[1].yielded) = 2

\* the columns in the header list, left to right
RECURSIVE HeaderListFrom(_, _)
HeaderListFrom(s, c) ==
    IF c = header THEN <<>> ELSE <<c>> \o HeaderListFrom(s, s.right[c])

HeaderList(s) == HeaderListFrom(s, s.right[header])

Searching == gen \in {"running", "yielded"}

\* C5: in every state reachable during search, for every column c in the
\* header list, _cover(c) followed by _uncover(c) gives back every size and
\* every link of every header and node.
C5_CoverUncoverRestores ==
    Searching =>
        \A c \in Range(HeaderList(solver)) :
            _uncover(_cover(solver, c), c) = solver

\* C5 witness: inside a nested search() a column is still in the header list
\* whose cover unlinks nodes of other columns.
C5_Witness ==
    /\ Searching
    /\ Len(stack) >= 2
    /\ \E c \in Range(HeaderList(solver)) :
          _cover(solver, c).up # solver.up

-----------------------------------------------------------------------------
(* Reuse of one solver for several calls, checked under SpecReuse *)

IsPrefix(a, b) == Len(a) <= Len(b) /\ a = SubSeq(b, 1, Len(a))

\* C9: after a solve() that was abandoned right after its first solution
\* (by solve_one, or by a client that stops pulling), the next solve() or
\* solve_one() on the same solver yields what the freshly built solver
\* yielded, starting with the same first solution.
C9_RestartableAfterEarlyStop ==
    (/\ Len(log) >= 2
     /\ log[1].ended = "abandoned"
     /\ Len(log[1].yielded) = 1)
    => /\ Len(log[2].yielded) >= 1
       /\ log[2].yielded[1] = log[1].yielded[1]

\* What the code does on reuse: a call that follows only calls that ran to
\* exhaustion yields the solutions of the first call, in the same order (all
\* of them when it runs to exhaustion itself); a call that follows an
\* abandoned call finds every column still covered and yields the empty row
\* list first.
ReuseAfterExhaustionOnly ==
    \A j \in 2..Len(log) :
        /\ (\A i \in 1..(j - 1) : log[i].ended = "exhausted")
           => /\ IsPrefix(log[j].yielded, log[1].yielded)
              /\ log[j].ended = "exhausted"
                 => log[j].yielded = log[1].yielded
        /\ log[j - 1].ended = "abandoned"
           => /\ Len(log[j].yielded) >= 1
              /\ log[j].yielded[1] = <<>>

-----------------------------------------------------------------------------
(* Properties of solve_for_date, checked under SpecDate.  The board of     *)
(* SpecDate has the cells of the days 1..MaxDay and the catalog the last   *)
(* MaxPieces pieces; "every date" is every date of that board.             *)

\* the solutions a finished call has returned
Solutions(c) == IF c.ret.isNone THEN <<>> ELSE c.ret.value

CellSet(placement) == Range(placement.cells)

\* the placements cover pairwise disjoint cells whose union is the region
IsPartition(sol, region) ==
    /\ \A i, j \in 1..Len(sol) :
          i # j => CellSet(sol[i]) \cap CellSet(sol[j]) = {}
    /\ UNION {CellSet(sol[i]) : i \in 1..Len(sol)} = region
    /\ \A i \in 1..Len(sol) : NoRepeat(sol[i].cells)

\* C1: every solution returned by solve_for_date(month, day, find_all), for
\* either value of find_all, is a partition of the date's playable region:
\* the cell sets of its placements are pairwise disjoint and their union is
\* playable_cells_for_date(month, day).
C1_SolutionIsPartition ==
    \A k \in 1..Len(log) :
        \A i \in 1..Len(Solutions(log[k])) :
            IsPartition(Solutions(log[k])[i],
                playable_cells_for_date(log[k].month, log[k].day).value)

\* C1 witness: a find_all call has returned two or more solutions.
C1_Witness ==
    \E k \in 1..Len(log) : log[k].find_all /\ Len(Solutions(log[k])) >= 2

\* the tags of the catalog
Tags == {PIECE_SHAPES[i][1] : i \in 1..Len(PIECE_SHAPES)}

\* C2: every solution returned by solve_for_date has as many placements as
\* the catalog has pieces (9 for the full catalog), and each piece tag is the
\* piece of exactly one of them.
C2_EveryPieceOnce ==
    \A k \in 1..Len(log) :
        \A i \in 1..Len(Solutions(log[k])) :
            LET sol == Solutions(log[k])[i]
            IN /\ Len(sol) = Len(PIECE_SHAPES)
               /\ \A t \in Tags :
                     Cardinality({p \in 1..Len(sol) : sol[p].piece = t}) = 1

\* C2 witness: a call with find_all = False has returned a solution.
C2_Witness ==
    \E k \in 1..Len(log) : ~log[k].find_all /\ Len(Solutions(log[k])) = 1

\* C6: two calls of solve_for_date with the same month, day and find_all
\* return identical values: the same solutions in the same order, each with
\* the same placements in the same order.
C6_Deterministic ==
    \A i, j \in 1..Len(log) :
        (/\ log[i].month = log[j].month
         /\ log[i].day = log[j].day
         /\ log[i].find_all = log[j].find_all)
        => log[i].ret = log[j].ret

\* C6 witness: two find_all calls for one date have each returned two or
\* more solutions.
C6_Witness ==
    \E i, j \in 1..Len(log) :
        /\ i # j
        /\ log[i].find_all /\ log[j].find_all
        /\ Len(Solutions(log[i])) >= 2
        /\ Len(Solutions(log[j])) >= 2

\* whether rows of the matrix that avoid the covered columns can cover every
\* other column exactly once (exhaustive, lowest uncovered column first)
RECURSIVE Coverable(_)
Coverable(covered) ==
    IF ColumnIndices \subseteq covered THEN TRUE
    ELSE LET c == Min(ColumnIndices \ covered)
         IN \E r \in 1..Len(matrix) :
               /\ c \in matrix[r]
               /\ matrix[r] \cap covered = {}
               /\ Coverable(covered \cup matrix[r])

\* the call that has just returned, whose matrix is still in `matrix`
JustReturned == op = "idle" /\ log # <<>>

LastCall == log[Len(log)]

\* C7 as claimed: when the matrix of the date has no exact cover the call
\* returns None, with find_all = True as well as with find_all = False; when
\* it has one the call returns a non-empty list.
C7_NoneWhenNoSolution ==
    JustReturned =>
        IF Coverable({})
        THEN ~LastCall.ret.isNone /\ LastCall.ret.value # <<>>
        ELSE LastCall.ret.isNone

\* C7 amended: when the matrix of the date has no exact cover the call
\* returns None with find_all = False and the empty list with find_all =
\* True; when it has one the call returns a non-empty list and never None.
C7_NoneOrEmptyWhenNoSolution ==
    JustReturned =>
        IF Coverable({})
        THEN ~LastCall.ret.isNone /\ LastCall.ret.value # <<>>
        ELSE IF LastCall.find_all
             THEN ~LastCall.ret.isNone /\ LastCall.ret.value = <<>>
             ELSE LastCall.ret.isNone

\* C7 witness: a find_all call and a call without find_all have both
\* returned for a date that has no solution.
C7_Witness ==
    /\ JustReturned
    /\ ~Coverable({})
    /\ \E i, j \in 1..Len(log) : log[i].find_all /\ ~log[j].find_all

\* C8: a call with find_all = False returns a list of at most one solution,
\* and that solution is the first element of the list a call with find_all =
\* True returns for the same date.
C8_OneIsFirstOfAll ==
    \A i, j \in 1..Len(log) :
        (/\ ~log[i].find_all
         /\ log[j].find_all
         /\ log[i].month = log[j].month
         /\ log[i].day = log[j].day)
        => /\ Len(Solutions(log[i])) <= 1
           /\ Len(Solutions(log[i])) = 1
              => /\ Len(Solutions(log[j])) >= 1
                 /\ Solutions(log[i])[1] = Solutions(log[j])[1]

\* C8 witness: for one date a call without find_all has returned a solution
\* and a find_all call has returned two or more.
C8_Witness ==
    \E i, j \in 1..Len(log) :
        /\ ~log[i].find_all /\ Len(Solutions(log[i])) = 1
        /\ log[j].find_all /\ Len(Solutions(log[j])) >= 2

-----------------------------------------------------------------------------
(* Properties of playable_cells_for_date, checked under SpecBoard *)

\* the finished calls of playable_cells_for_date
Probes == {log[i] : i \in DOMAIN log}

\* C10: playable_cells_for_date(month, day) fails, with KeyError, exactly when
\* month is outside 1..12 or day is outside 1..31, and then the tables of the
\* board are as they were; every pair with month in 1..12 and day in 1..31,
\* a day the month does not have included, returns the playable cells other
\* than the month's cell and the day's cell, 41 of them
C10_FailsExactlyOnInvalidDate ==
    \A p \in Probes :
        /\ (p.ret.raised # "") <=> (p.month \notin 1..12 \/ p.day \notin 1..31)
        /\ p.ret.raised \in {"", "KeyError"}
        /\ p.ret.raised # "" => InitTables
        /\ p.ret.raised = "" =>
              /\ p.ret.value = all_playable_cells
                                 \ {MonthCoords[p.month], DayCoords[p.day]}
              /\ Cardinality(p.ret.value) = 41

\* a call for 31 February has returned a region, without error
C10_Witness ==
    \E p \in Probes :
        /\ p.month = 2
        /\ p.day = 31
        /\ p.ret.raised = ""
        /\ p.ret.value # {}

\* the cells of the BOARD_ROWS x BOARD_COLS grid
Grid == (0..(BOARD_ROWS - 1)) \X (0..(BOARD_COLS - 1))

\* the calls of playable_cells_for_date that have returned a region
Regions == {p \in Probes : p.ret.raised = ""}

\* C11: for every month in 1..12 and day in 1..31 the region returned by
\* playable_cells_for_date(month, day) is the grid without the six illegal
\* cells, the month's cell and the day's cell: it has no illegal cell and
\* neither date cell, and it has every other month cell and day cell.
C11_RegionIsGridMinusIllegalAndDate ==
    \A p \in Regions :
        LET month_cell == MonthCoords[p.month]
            day_cell == DayCoords[p.day]
        IN /\ Cardinality(ILLEGAL_CELLS) = 6
           /\ p.ret.value = (Grid \ ILLEGAL_CELLS) \ {month_cell, day_cell}
           /\ p.ret.value \cap ILLEGAL_CELLS = {}
           /\ month_cell \notin p.ret.value
           /\ day_cell \notin p.ret.value
           /\ \A m \in (1..12) \ {p.month} : MonthCoords[m] \in p.ret.value
           /\ \A d \in (1..31) \ {p.day} : DayCoords[d] \in p.ret.value

\* C11 witness: the call for 25 December has returned a region.
C11_Witness ==
    \E p \in Regions : p.month = 12 /\ p.day = 25 /\ p.ret.value # {}

\* the sum of the cell counts of the shapes of a catalog
RECURSIVE TotalCells(_)
TotalCells(shapes) ==
    IF shapes = <<>> THEN 0
    ELSE Cardinality(Head(shapes)[2]) + TotalCells(Tail(shapes))

\* C12: for every month in 1..12 and day in 1..31 the number of playable
\* cells of the date is the sum of the cell counts of the nine shapes of the
\* catalog, which is the number of cells nine placements, one of each piece,
\* cover.
C12_RegionSizeIsCatalogSize ==
    \A p \in Regions :
        /\ Len(PIECE_SHAPES) = 9
        /\ Cardinality(p.ret.value) = TotalCells(PIECE_SHAPES)

\* C12 witness: the call for 1 January has returned a region of as many
\* cells as the catalog has.
C12_Witness ==
    \E p \in Regions :
        /\ p.month = 1
        /\ p.day = 1
        /\ Cardinality(p.ret.value) = TotalCells(PieceShapes)

-----------------------------------------------------------------------------
(* Properties of solve_for_date(1, 1, find_all) on the board of the        *)
(* program, checked under SpecFull                                         *)

\* the number of cells the placements of a solution cover
RECURSIVE CellCount(_)
CellCount(sol) ==
    IF sol = <<>> THEN 0 ELSE Len(Head(sol).cells) + CellCount(Tail(sol))

\* the solutions of 1 January the program has in hand: those of the calls
\* that have returned and those the running call has collected so far
SolutionsOfJan1 ==
    UNION {Range(Solutions(log[k])) :
              k \in {i \in 1..Len(log) : log[i].month = 1 /\ log[i].day = 1}}
    \cup (IF op = "solve_for_date" /\ args.month = 1 /\ args.day = 1
          THEN {ToPlacements(yielded[i]) : i \in 1..Len(yielded)}
          ELSE {})

\* C13 as claimed: for month = 1, day = 1 each solution of solve_for_date
\* covers exactly 43 cells.
C13_SolutionCovers43 == \A sol \in SolutionsOfJan1 : CellCount(sol) = 43

\* C13 amended: for month = 1, day = 1 each solution of solve_for_date covers
\* exactly 41 cells, the 49 cells of the grid less the 6 illegal cells and
\* the 2 date cells.
C13_SolutionCovers41 == \A sol \in SolutionsOfJan1 : CellCount(sol) = 41

\* C13 witness: the call with find_all = False has returned its solution.
C13_Witness ==
    /\ Len(log) = 1
    /\ ~log[1].find_all
    /\ log[1].month = 1 /\ log[1].day = 1
    /\ \E sol \in SolutionsOfJan1 : Len(sol) = 9

\* no call for 1 January has returned None or an empty list, and the search
\* of a find_all call does not end with nothing collected
C14_NonEmpty ==
    /\ \A k \in 1..Len(log) :
          (log[k].month = 1 /\ log[k].day = 1)
          => ~log[k].ret.isNone /\ Len(log[k].ret.value) >= 1
    /\ (op = "solve_for_date" /\ gen = "done") => yielded # <<>>

\* the list of collected solutions only grows while the call runs
C14_Grows ==
    (op = "solve_for_date" /\ op' = "solve_for_date")
    => IsPrefix(yielded, yielded')

\* C14: for month = 1, day = 1 solve_for_date returns at least one solution,
\* with find_all = False and with find_all = True: the call with find_all =
\* False returns a list of one solution, and the list the call with
\* find_all = True collects and returns has a solution from the first yield
\* of the search on.
C14_Jan1HasSolution == []C14_NonEmpty /\ [][C14_Grows]_vars

\* C14 witness: the call with find_all = True has collected solutions.
C14_Witness ==
    /\ op = "solve_for_date"
    /\ args.find_all /\ args.month = 1 /\ args.day = 1
    /\ Len(yielded) >= 1
    /\ \A i \in 1..Len(yielded) : Len(yielded[i]) = 9

-----------------------------------------------------------------------------
(* Properties of generate_orientations and generate_placements, checked    *)
(* under SpecPlacements                                                    *)

\* the shape moved by (dr, dc)
Translate(shape, dr, dc) == {<<c[1] + dr, c[2] + dc>> : c \in shape}

\* the shape has a cell in row 0 and a cell in column 0 and none before them
AtOrigin(shape) ==
    /\ \A c \in shape : c[1] >= 0 /\ c[2] >= 0
    /\ \E c \in shape : c[1] = 0
    /\ \E c \in shape : c[2] = 0

\* the translate of the shape that is at the origin
ToOrigin(shape) ==
    LET span == (-(BOARD_ROWS + BOARD_COLS))..(BOARD_ROWS + BOARD_COLS)
        dr == CHOOSE d \in span :
                 /\ \A c \in shape : c[1] + d >= 0
                 /\ \E c \in shape : c[1] + d = 0
        dc == CHOOSE d \in span :
                 /\ \A c \in shape : c[2] + d >= 0
                 /\ \E c \in shape : c[2] + d = 0
    IN Translate(shape, dr, dc)

\* the shape turned k times by (r, c) -> (c, -r)
Turned(shape, k) ==
    CASE k % 4 = 0 -> shape
      [] k % 4 = 1 -> {<<c[2], -c[1]>> : c \in shape}
      [] k % 4 = 2 -> {<<-c[1], -c[2]>> : c \in shape}
      [] k % 4 = 3 -> {<<-c[2], c[1]>> : c \in shape}

\* the 8 raw variants, at the origin: the 4 rotations of the shape, then the
\* 4 rotations of its mirror (r, c) -> (r, -c)
RawVariants(shape) ==
    [j \in 1..8 |->
        IF j <= 4 THEN ToOrigin(Turned(shape, j - 1))
        ELSE ToOrigin(Turned({<<c[1], -c[2]>> : c \in shape}, j - 5))]

\* the list without the elements that occur earlier in it
RECURSIVE FirstSeen(_, _)
FirstSeen(list, k) ==
    IF k > Len(list) THEN <<>>
    ELSE IF \E j \in 1..(k - 1) : list[j] = list[k]
         THEN FirstSeen(list, k + 1)
         ELSE <<list[k]>> \o FirstSeen(list, k + 1)

\* the orientations have been computed
HasOrientations == op = "generate_placements"

\* C15: for every piece of the catalog generate_orientations returns a
\* non-empty list of at most 8 shapes, pairwise distinct as cell sets, each
\* with minimum row 0 and minimum column 0 and with as many cells as the base
\* shape; the first is the base shape at the origin and the elements are in
\* first-seen order of the 8 raw variants (4 rotations of the base, then 4
\* rotations of its horizontal mirror).
C15_OrientationsDistinctNormalized ==
    HasOrientations =>
        /\ Len(piece_orients) = Len(PIECE_SHAPES)
        /\ \A i \in 1..Len(piece_orients) :
              LET base == PIECE_SHAPES[i][2]
                  os == piece_orients[i][2]
              IN /\ piece_orients[i][1] = PIECE_SHAPES[i][1]
                 /\ Len(os) >= 1 /\ Len(os) <= 8
                 /\ \A j, k \in 1..Len(os) : j # k => os[j] # os[k]
                 /\ \A j \in 1..Len(os) :
                       /\ AtOrigin(os[j])
                       /\ Cardinality(os[j]) = Cardinality(base)
                 /\ os[1] = ToOrigin(base)
                 /\ os = FirstSeen(RawVariants(base), 1)

\* C15 witness: the orientations are computed; a piece has 8 of them and a
\* piece whose variants coincide has 1.
C15_Witness ==
    /\ HasOrientations
    /\ \E i \in 1..Len(piece_orients) : Len(piece_orients[i][2]) = 8
    /\ \E i \in 1..Len(piece_orients) : Len(piece_orients[i][2]) = 1

\* C16: for every orientation o of every piece, _rotate90 applied four times
\* to o and normalized is o, and the normalized _rotate90 of o is in the
\* orientation list of the piece.
C16_RotationClosure ==
    HasOrientations =>
        \A i \in 1..Len(piece_orients) :
            LET os == piece_orients[i][2]
            IN \A j \in 1..Len(os) :
                  /\ _normalize(_rotate90(_rotate90(_rotate90(
                                   _rotate90(os[j]))))) = os[j]
                  /\ _normalize(_rotate90(os[j])) \in Range(os)

\* C16 witness: the orientations are computed and the rotation of some
\* orientation is another orientation of its piece.
C16_Witness ==
    /\ HasOrientations
    /\ \E i \in 1..Len(piece_orients) :
          \E j, k \in 1..Len(piece_orients[i][2]) :
              /\ j # k
              /\ _normalize(_rotate90(piece_orients[i][2][j]))
                    = piece_orients[i][2][k]

\* the playable region of the date the placements were generated for
Region == playable_cells_for_date(args.month, args.day).value

\* the canonical shape of a piece
ShapeOf(tag) ==
    PIECE_SHAPES[CHOOSE i \in 1..Len(PIECE_SHAPES) : PIECE_SHAPES[i][1] = tag][2]

\* the orientation list of a piece
OrientationsOf(tag) ==
    piece_orients[CHOOSE i \in 1..Len(piece_orients) :
                     piece_orients[i][1] = tag][2]

\* C17: every placement returned by generate_placements has pairwise
\* distinct cells in ascending (row, col) order, all in the playable region
\* it was given, and as many cells as the canonical shape of its piece.
C17_PlacementWellFormed ==
    HasOrientations =>
        \A k \in 1..Len(placements) :
            LET cells == placements[k].cells
            IN /\ NoRepeat(cells)
               /\ \A i \in 1..(Len(cells) - 1) :
                     \/ cells[i][1] < cells[i + 1][1]
                     \/ /\ cells[i][1] = cells[i + 1][1]
                        /\ cells[i][2] < cells[i + 1][2]
               /\ Range(cells) \subseteq Region
               /\ Len(cells) = Cardinality(ShapeOf(placements[k].piece))

\* C17 witness: the placements of a date are generated, some of 4 cells and
\* some of 5 cells.
C17_Witness ==
    /\ HasOrientations
    /\ \E k \in 1..Len(placements) : Len(placements[k].cells) = 4
    /\ \E k \in 1..Len(placements) : Len(placements[k].cells) = 5

\* the piece and the cell set of every returned placement
Placed == {<<placements[k].piece, Range(placements[k].cells)>> :
              k \in 1..Len(placements)}

\* every piece with every orientation moved by every (dr, dc) >= 0 that can
\* keep a cell in the grid
Translates ==
    UNION {UNION {{<<piece_orients[i][1],
                     Translate(piece_orients[i][2][j], dr, dc)>> :
                      dr \in 0..(BOARD_ROWS - 1), dc \in 0..(BOARD_COLS - 1)} :
                    j \in 1..Len(piece_orients[i][2])} :
             i \in 1..Len(piece_orients)}

\* C18: generate_placements returns a placement for a piece, orientation and
\* translation (dr, dc) >= 0 if and only if the translated shape is inside
\* the grid and a subset of the playable region; each such placement is
\* returned once; placements of different pieces that overlap are returned.
C18_PlacementsAreTheFittingTranslates ==
    HasOrientations =>
        /\ Placed = {t \in Translates :
                        t[2] \subseteq Grid /\ t[2] \subseteq Region}
        /\ Cardinality(Placed) = Len(placements)
        /\ \E k, l \in 1..Len(placements) :
              /\ placements[k].piece # placements[l].piece
              /\ Range(placements[k].cells) \cap Range(placements[l].cells)
                    # {}

\* C18 witness: placements are returned, and a translate that is inside the
\* grid but not inside the region is not.
C18_Witness ==
    /\ HasOrientations
    /\ placements # <<>>
    /\ \E t \in Translates :
          t[2] \subseteq Grid /\ ~(t[2] \subseteq Region) /\ t \notin Placed

\* the piece, the position of the orientation in the list of the piece and
\* the translation (dr, dc) of a placement
KeyOf(placement) ==
    LET cells == Range(placement.cells)
        dr == Min({c[1] : c \in cells})
        dc == Min({c[2] : c \in cells})
        os == OrientationsOf(placement.piece)
    IN <<Ord(placement.piece),
         CHOOSE j \in 1..Len(os) : os[j] = Translate(cells, -dr, -dc),
         dr, dc>>

\* the keys are in lexicographic order
KeyLess(a, b) ==
    \E i \in 1..4 : a[i] < b[i] /\ \A j \in 1..(i - 1) : a[j] = b[j]

\* C19: the list returned by generate_placements is ordered by piece tag,
\* ascending, then by the position of the orientation in the orientation list
\* of the piece, then by translation in row-major order (dr ascending, dc
\* ascending within one dr).
C19_PlacementOrder ==
    HasOrientations =>
        \A k \in 1..(Len(placements) - 1) :
            KeyLess(KeyOf(placements[k]), KeyOf(placements[k + 1]))

\* C19 witness: the list has neighbours of different pieces, neighbours of
\* different orientations of a piece, and neighbours in different rows.
C19_Witness ==
    /\ HasOrientations
    /\ \E k \in 1..(Len(placements) - 1) :
          KeyOf(placements[k])[1] < KeyOf(placements[k + 1])[1]
    /\ \E k \in 1..(Len(placements) - 1) :
          /\ KeyOf(placements[k])[1] = KeyOf(placements[k + 1])[1]
          /\ KeyOf(placements[k])[2] < KeyOf(placements[k + 1])[2]
    /\ \E k \in 1..(Len(placements) - 1) :
          /\ KeyOf(placements[k])[1] = KeyOf(placements[k + 1])[1]
          /\ KeyOf(placements[k])[2] = KeyOf(placements[k + 1])[2]
          /\ KeyOf(placements[k])[3] < KeyOf(placements[k + 1])[3]

-----------------------------------------------------------------------------
(* Properties of build_exact_cover(1, 1) on the board of the program,      *)
(* checked under SpecFull                                                  *)

\* the column of a piece: the number of tags that sort before its tag
PieceColumn(tag) == Cardinality({t \in Tags : Ord(t) < Ord(tag)})

\* the column of a cell: after the piece columns, the number of cells of
\* the region that come before it in row-major order
CellColumn(cell) ==
    Cardinality(Tags)
    + Cardinality({c \in Region :
                      c[1] < cell[1] \/ (c[1] = cell[1] /\ c[2] < cell[2])})

\* the column set the row of a placement is to have
ColumnsOf(placement) ==
    {PieceColumn(placement.piece)}
    \cup {CellColumn(placement.cells[i]) : i \in 1..Len(placement.cells)}

\* the column names of the nodes of the solver that carry a row id
ColumnsOfRow(row_id) ==
    {solver.name[solver.column[n]] :
        n \in {m \in DOMAIN solver.row_id : solver.row_id[m] = row_id}}

\* C20: build_exact_cover(month, day) numbers the columns with the piece
\* tags first, in lexicographic order (0..8), then the playable cells of the
\* date in row-major order (9 and up); the row of the placement at index i
\* has row id i and the column set {piece column} \cup {cell columns of its
\* cells}; column_labels[j] is the tag or the "(row,col)" text of column j
\* and the labels are pairwise distinct.
C20_ColumnsAndRows ==
    op = "build_exact_cover" =>
        LET n == Len(matrix)
        IN /\ {PieceColumn(t) : t \in Tags} = 0..8
           /\ {CellColumn(c) : c \in Region}
                 = 9..(Len(solver.columns) - 1)
           /\ \A j \in 1..Len(solver.columns) :
                 solver.name[solver.columns[j]] = j - 1
           /\ n <= Len(placements)
           /\ n > 0 =>
                 /\ matrix[n] = ColumnsOf(placements[n])
                 /\ ColumnsOfRow(n - 1) = ColumnsOf(placements[n])
                 /\ ColumnsOfRow(n) = {}
           /\ n = Len(placements) =>
                 \A i \in 1..n : matrix[i] = ColumnsOf(placements[i])
           /\ Len(column_labels) = Len(solver.columns)
           /\ \A t \in Tags : column_labels[PieceColumn(t) + 1] = t
           /\ \A c \in Region :
                 column_labels[CellColumn(c) + 1]
                    = "(" \o ToString(c[1]) \o "," \o ToString(c[2]) \o ")"
           /\ \A j, k \in 1..Len(column_labels) :
                 j # k => column_labels[j] # column_labels[k]

\* C20 witness: build_exact_cover(1, 1) has added the rows of all its
\* placements.
C20_Witness ==
    /\ op = "build_exact_cover"
    /\ args.month = 1 /\ args.day = 1
    /\ placements # <<>>
    /\ Len(matrix) = Len(placements)

-----------------------------------------------------------------------------
(* The column choice, checked under Spec *)

\* the position of x in a list without repetition
PositionIn(list, x) == CHOOSE i \in 1..Len(list) : list[i] = x

\* C21: whenever the header list is not empty, _choose_column returns a column
\* of the header list whose size is the least size of the header list and
\* which comes first in header order among the columns of that size.
C21_ChoosesFirstSmallest ==
    LET cols == HeaderList(solver)
        best == _choose_column(solver)
    IN cols # <<>> =>
          /\ best \in Range(cols)
          /\ \A c \in Range(cols) : solver.size[best] <= solver.size[c]
          /\ \A i \in 1..Len(cols) :
                solver.size[cols[i]] = solver.size[best]
                   => PositionIn(cols, best) <= i

\* C21 witness: search() is about to choose among three columns of which the
\* first is larger than the other two, which have the same size; the second
\* one is chosen.
C21_Witness ==
    LET cols == HeaderList(solver)
    IN /\ Running("start")
       /\ Len(cols) = 3
       /\ solver.size[cols[2]] = solver.size[cols[3]]
       /\ solver.size[cols[1]] > solver.size[cols[2]]
       /\ _choose_column(solver) = cols[2]

-----------------------------------------------------------------------------
(* The instrumented search and the trace processing, checked under         *)
(* SpecSteps                                                               *)

IsSolutionEvent(e) == e.type = "SOLUTION"

IsSelectEvent(e) == e.type = "SELECT_ROW"

\* the solution payloads of the SOLUTION events of a trace, in order
Payloads(events) ==
    LET sols == SelectSeq(events, IsSolutionEvent)
    IN [i \in 1..Len(sols) |-> sols[i].data.solution]

\* the rows of the SELECT_ROW events of a trace, in order
SelectedRows(events) ==
    LET sels == SelectSeq(events, IsSelectEvent)
    IN [i \in 1..Len(sels) |-> sels[i].data.row]

\* solve() has run to its end on the built matrix and solve_steps() is being
\* collected or processed on the same matrix
StepsAfterSolve ==
    /\ op \in {"solve_steps", "process_history"}
    /\ Len(log) = 1
    /\ log[1].op = "solve"
    /\ log[1].ended = "exhausted"

\* C22: on the same matrix, the solution payloads of the SOLUTION events of
\* solve_steps() are, as far as the trace has come, the first solutions that
\* solve() yielded, and its SELECT_ROW rows the first rows that solve()
\* appended to its partial solution; once solve_steps() is exhausted the two
\* pairs of sequences are equal.
C22_StepsAgreeWithSolve ==
    StepsAfterSolve =>
        /\ IsPrefix(Payloads(history), log[1].yielded)
        /\ IsPrefix(SelectedRows(history), selected)
        /\ gen = "done" =>
              /\ Payloads(history) = log[1].yielded
              /\ SelectedRows(history) = selected

\* C22 witness: both searches have run to their end on a matrix with two
\* exact covers, the first of one row and the second of two rows.
C22_Witness ==
    /\ StepsAfterSolve
    /\ gen = "done"
    /\ Len(Payloads(history)) = 2
    /\ Len(Payloads(history)[1]) = 1
    /\ Len(Payloads(history)[2]) = 2
    /\ Len(SelectedRows(history)) = 3

-----------------------------------------------------------------------------
(* The trace VizState collects, checked under SpecViz on the full board *)

\* the positions of the SOLUTION events of a trace
SolutionPositions(events) ==
    {i \in 1..Len(events) : events[i].type = "SOLUTION"}

\* C23: the trace VizState collects from solve_steps() for a date that has a
\* tiling starts with an INIT event and has no SOLUTION event before its
\* last event; when the loop is left, the last event is the one SOLUTION
\* event, its state lists 9 rows, and the placements of these rows partition
\* the playable region of the date.
C23_TraceEndsWithOneSolution ==
    /\ (op = "solve_steps" /\ history # <<>>) =>
          /\ history[1].type = "INIT"
          /\ SolutionPositions(history) \subseteq {Len(history)}
    /\ op = "process_history" =>
          LET last == history[Len(history)]
          IN /\ history[1].type = "INIT"
             /\ SolutionPositions(history) = {Len(history)}
             /\ Len(last.state) = 9
             /\ IsPartition(ToPlacements(last.state), Region)

\* C23 witness: VizState(3, 2) has left the loop with a trace that ends with
\* a SOLUTION event after nine SELECT_ROW events.
C23_Witness ==
    /\ op = "process_history"
    /\ raw_pos = 0
    /\ args.month = 3 /\ args.day = 2
    /\ history[Len(history)].type = "SOLUTION"
    /\ Len(SelectedRows(history)) = 9

\* the event types process_history lets through
ExternalTypes ==
    {"INIT", "CHOOSE_COL", "SELECT_ROW", "BACKTRACK", "UNSELECT_ROW",
     "SOLUTION"}

IsExternalEvent(e) == e.type \notin {"COVER_COL", "UNCOVER_COL"}

\* the events of `out` are those of `raw` that are neither COVER_COL nor
\* UNCOVER_COL, in the same order, with the same type, data and state, and
\* all of them have one of the six external types
IsFiltered(out, raw) ==
    LET kept == SelectSeq(raw, IsExternalEvent)
    IN /\ Len(out) = Len(kept)
       /\ \A i \in 1..Len(out) :
             /\ out[i].type = kept[i].type
             /\ out[i].data = kept[i].data
             /\ out[i].state = kept[i].state
             /\ out[i].type \in ExternalTypes

\* the finished runs of solve_steps() followed by process_history
StepsRuns == {k \in 1..Len(log) : log[k].op = "solve_steps"}

\* C24: the list process_history builds, and returns, holds the events of the
\* raw trace consumed so far that are neither COVER_COL nor UNCOVER_COL, each
\* of them once and in raw order, and every event in it has type INIT,
\* CHOOSE_COL, SELECT_ROW, BACKTRACK, UNSELECT_ROW or SOLUTION.
C24_OnlyExternalEventsKept ==
    /\ op = "process_history" =>
          IsFiltered(processed, SubSeq(history, 1, raw_pos))
    /\ \A k \in StepsRuns : IsFiltered(log[k].ret.value, log[k].yielded)

\* C24 witness: process_history has returned a list with events of all six
\* types for a raw trace that also held COVER_COL and UNCOVER_COL events.
C24_Witness ==
    \E k \in StepsRuns :
        /\ {log[k].ret.value[i].type : i \in 1..Len(log[k].ret.value)}
              = ExternalTypes
        /\ {"COVER_COL", "UNCOVER_COL"}
              \subseteq {log[k].yielded[i].type : i \in 1..Len(log[k].yielded)}
        /\ history = log[k].ret.value

\* the top frame of the context stack
TopContext == context_stack[Len(context_stack)]

\* what one iteration of the loop of process_history does to the context
\* stack, by the type of the event it consumes
ContextStep ==
    (op = "process_history" /\ raw_pos' = raw_pos + 1) =>
        CASE RawEvent.type = "CHOOSE_COL" ->
                /\ context_stack'
                      = Append(context_stack,
                               [col |-> RawEvent.data.chosen,
                                total |-> RawEvent.data.size,
                                current |-> 0])
          [] RawEvent.type = "UNCOVER_COL" ->
                /\ context_stack # <<>>
                /\ TopContext.col = RawEvent.data.col
                /\ context_stack' = PopContext(context_stack)
          [] RawEvent.type = "BACKTRACK" ->
                /\ context_stack # <<>>
                /\ context_stack' = IF TopContext.total = 0
                                    THEN PopContext(context_stack)
                                    ELSE context_stack
          [] RawEvent.type = "SELECT_ROW" ->
                /\ Len(context_stack) = Len(RawEvent.state)
                /\ Len(context_stack') = Len(context_stack)
          [] OTHER -> context_stack' = context_stack

\* process_history has consumed a trace of an exhausted solve_steps()
CompleteTraceProcessed ==
    op = "process_history" /\ gen = "done" /\ raw_pos = Len(history)

\* C25: in process_history over a trace of solve_steps, complete or cut at
\* the first SOLUTION, a frame is pushed on each CHOOSE_COL; at each
\* UNCOVER_COL the top frame has the column of the event and exactly that
\* frame is popped; at each BACKTRACK the top frame is popped exactly when
\* its total is 0; at each SELECT_ROW the stack is as deep as the state of the
\* event is long; no other event changes the depth; and after a complete
\* trace the stack is empty.
C25_ContextStackDiscipline ==
    /\ [](CompleteTraceProcessed => context_stack = <<>>)
    /\ [][ContextStep]_vars

\* C25 witness: a complete trace was processed in which a row was selected,
\* the next column had no options, and the frames were popped by the
\* BACKTRACK of that column and by the UNCOVER_COL of the first column.
C25_Witness ==
    /\ CompleteTraceProcessed
    /\ context_stack = <<>>
    /\ \E i \in 1..(Len(history) - 1) :
          /\ history[i].type = "CHOOSE_COL"
          /\ history[i].data.size = 0
          /\ history[i + 1].type = "BACKTRACK"
          /\ Len(history[i].state) = 1
    /\ \E i \in 1..Len(history) : history[i].type = "UNCOVER_COL"

-----------------------------------------------------------------------------
(* Matrices without an exact cover, checked under SpecLive *)

\* solve() or solve_one() is running on a matrix that has no exact cover
SearchWithoutCover ==
    op \in {"solve", "solve_one"} /\ AllExactCovers = {}

\* the call has come to its end by exhaustion, with nothing yielded, and
\* solve_one has returned None
EndedEmpty ==
    /\ op = "idle"
    /\ Len(log) = 1
    /\ log[1].ended = "exhausted"
    /\ log[1].yielded = <<>>
    /\ log[1].op = "solve" => log[1].ret = Value(<<>>)
    /\ log[1].op = "solve_one" => log[1].ret.isNone

\* a running generator has a frame at a statement of search() from which one
\* of its steps can be taken
FrameAtStatement ==
    /\ stack # <<>>
    /\ Top.pc \in {"start", "loop", "cover", "ret", "uncover"}
    /\ Top.pc = "ret" => solution # <<>>

\* C26: on a matrix that has no exact cover, solve() never yields, it can
\* always take its next step without an error, and every run of solve() or
\* solve_one() comes to its end after finitely many steps: the generator is
\* exhausted with nothing yielded and solve_one() returns None.
C26_NoCoverEndsEmpty ==
    /\ [](SearchWithoutCover => yielded = <<>> /\ gen # "yielded")
    /\ [](SearchStepEnabled => FrameAtStatement)
    /\ (SearchWithoutCover ~> EndedEmpty)

\* C26 witness: solve_one() has returned None on a matrix without exact
\* cover, after its search had selected rows.
C26_Witness ==
    /\ EndedEmpty
    /\ log[1].op = "solve_one"
    /\ AllExactCovers = {}
    /\ Len(matrix) >= 2
    /\ selected # <<>>

\* the state of the i-th event of the trace, by its type, against the state
\* of the event before it
SnapshotOK(events, i) ==
    LET e == events[i]
        before == IF i = 1 THEN <<>> ELSE events[i - 1].state
    IN CASE e.type = "SELECT_ROW" -> e.state = Append(before, e.data.row)
         [] e.type = "UNSELECT_ROW" -> before = Append(e.state, e.data.row)
         [] e.type = "SOLUTION" ->
               e.state = e.data.solution /\ e.state = before
         [] OTHER -> e.state = before

\* the events emitted so far stay as they are
EmittedKept ==
    op = "solve_steps" =>
        /\ Len(history') >= Len(history)
        /\ \A i \in 1..Len(history) : history'[i] = history[i]

\* C27: while solve_steps() is being collected, the state of the last event
\* is the list of the row ids of the rows selected now, in selection order;
\* the state of a SELECT_ROW event is the state before it with the row of the
\* event appended, the state of an UNSELECT_ROW event is the state before it
\* without its last row, which is the row of the event, the state of a
\* SOLUTION event equals its solution payload, every other event has the
\* state of the event before it; and no step changes an event that was
\* already emitted.
C27_StateIsSnapshot ==
    /\ [](op = "solve_steps" =>
            /\ history # <<>> =>
                  history[Len(history)].state = get_state(solver, solution)
            /\ \A i \in 1..Len(history) : SnapshotOK(history, i))
    /\ [][EmittedKept]_vars

\* C27 witness: a trace in which a solution of two rows was emitted and a
\* row was unselected afterwards.
C27_Witness ==
    /\ op = "solve_steps"
    /\ \E i, j \in 1..Len(history) :
          /\ i < j
          /\ history[i].type = "SOLUTION"
          /\ Len(history[i].state) = 2
          /\ history[j].type = "UNSELECT_ROW"
          /\ Len(history[j].state) = 1

\* the nodes met from x by following down links until the column `c` is
\* reached, at most `fuel` of them
RECURSIVE DownFrom(_, _, _, _)
DownFrom(s, c, x, fuel) ==
    IF x = c \/ fuel = 0 THEN <<>>
    ELSE <<x>> \o DownFrom(s, c, s.down[x], fuel - 1)

\* the nodes in the vertical list of column c, top to bottom
DownList(s, c) == DownFrom(s, c, s.down[c], Cardinality(DOMAIN s.down))

HorizontalOK(s, x) == s.left[s.right[x]] = x /\ s.right[s.left[x]] = x

VerticalOK(s, x) == s.up[s.down[x]] = x /\ s.down[s.up[x]] = x

\* the structure is a set of circular doubly-linked lists: the header list,
\* the list of every row, and the vertical list of every column of the
\* header list, whose size is the number of its nodes
ValidLinks(s) ==
    /\ HorizontalOK(s, header)
    /\ \A c \in Range(HeaderList(s)) :
          /\ HorizontalOK(s, c)
          /\ VerticalOK(s, c)
          /\ \A x \in Range(DownList(s, c)) :
                VerticalOK(s, x) /\ s.column[x] = c
          /\ s.down[IF DownList(s, c) = <<>> THEN c
                    ELSE DownList(s, c)[Len(DownList(s, c))]] = c
          /\ s.size[c] = Len(DownList(s, c))
    /\ \A x \in DOMAIN s.column : HorizontalOK(s, x)

\* solve(), solve_one() or solve_steps() is in progress
SearchInProgress == gen \in {"running", "yielded", "stepping", "emitted", "done"}

\* C28: in every state reached during solve() or solve_steps() the links form
\* valid circular doubly-linked lists: for the root header, every column of
\* the header list and every row node, right and left are inverse; for every
\* column of the header list and every node in its vertical list, up and
\* down are inverse; and the size of every column of the header list is the
\* number of nodes in its vertical list.
C28_LinksValid == SearchInProgress => ValidLinks(solver)

\* C28 witness: solve_steps(), run after solve(), is two calls deep with one
\* column covered and rows left in the columns of the header list.
C28_Witness ==
    /\ op = "solve_steps"
    /\ Len(log) = 1
    /\ Len(stack) = 2
    /\ Len(HeaderList(solver)) = 2
    /\ \A c \in Range(HeaderList(solver)) : solver.size[c] >= 1

-----------------------------------------------------------------------------
(* Restoration of the structure by the search, checked under SpecExhaust *)

\* the structure add_row builds from the first n rows of the matrix
RECURSIVE BuiltFrom(_)
BuiltFrom(n) ==
    IF n = 0 THEN DLXSolver(Len(solver.columns))
    ELSE add_row(BuiltFrom(n - 1), n - 1, matrix[n])

\* the freshly built structure of the matrix
FreshlyBuilt == BuiltFrom(Len(matrix))

\* the nodes of a row after `node`, left to right, up to the row node itself
RECURSIVE RowRightFrom(_, _)
RowRightFrom(row, node) ==
    IF node = row THEN <<>>
    ELSE <<node>> \o RowRightFrom(row, solver.right[node])

\* the nodes of the row of a frame whose columns are covered at the
\* statement the frame is at: while covering, those before `node`; during
\* the recursive call, all; while uncovering, those up to `node`
CoveredNodes(f) ==
    LET others == RowRightFrom(f.row, solver.right[f.row])
    IN CASE f.pc = "cover" ->
               IF f.node = f.row THEN others
               ELSE SubSeq(others, 1, PositionIn(others, f.node) - 1)
         [] f.pc = "ret" -> others
         [] f.pc = "uncover" ->
               IF f.node = f.row THEN <<>>
               ELSE SubSeq(others, 1, PositionIn(others, f.node))
         [] OTHER -> <<>>

\* the columns of the nodes are covered, one after the other
RECURSIVE CoverAll(_, _)
CoverAll(s, nodes) ==
    IF nodes = <<>> THEN s
    ELSE CoverAll(_cover(s, s.column[Head(nodes)]), Tail(nodes))

\* the structure a frame leaves to the call it makes
AfterFrame(s, f) ==
    IF f.pc \in {"start", "yield"} THEN s
    ELSE CoverAll(_cover(s, f.column), CoveredNodes(f))

\* the structure the frames of the stack make of the structure s, outermost
\* call first
RECURSIVE Replay(_, _)
Replay(s, frames) ==
    IF frames = <<>> THEN s
    ELSE Replay(AfterFrame(s, Head(frames)), Tail(frames))

HasRowSelected(f) == f.pc \in {"cover", "ret"}

\* the rows the frames of the stack have selected, outermost call first
RowsOf(frames) ==
    LET sel == SelectSeq(frames, HasRowSelected)
    IN [i \in 1..Len(sel) |-> sel[i].row]

\* C29: at every statement of every search call the link structure is the
\* freshly built one with the covers of the calls on the stack, and the
\* partial solution is the list of the rows these calls have selected; so a
\* call that returns leaves the header list, the links, the sizes and the
\* partial solution as they were when it was entered, with the columns of a
\* tried row uncovered in the reverse of the order they were covered in;
\* after solve() is exhausted the structure is the freshly built one, and a
\* second solve() yields the same solutions in the same order.
C29_SearchRestores ==
    /\ solver = Replay(FreshlyBuilt, stack)
    /\ solution = RowsOf(stack)
    /\ Len(log) >= 1 => IsPrefix(yielded, log[1].yielded)
    /\ Len(log) = 2 => log[2].yielded = log[1].yielded

\* C29 witness: the second solve() on a matrix with a row of three columns
\* has ended after the same two solutions as the first.
C29_Witness ==
    /\ Len(log) = 2
    /\ Len(log[2].yielded) = 2
    /\ \E r \in 1..Len(matrix) : Cardinality(matrix[r]) = 3
    /\ solver = FreshlyBuilt

-----------------------------------------------------------------------------
(* add_row, checked under Spec *)

\* the node of row `rid` in the column with index c
NodeOfRow(s, rid, c) ==
    CHOOSE n \in DOMAIN s.column :
        s.row_id[n] = rid /\ s.column[n] = s.columns[c + 1]

\* the listed column that follows c in ascending order, the least one after
\* the greatest
NextListed(cols, c) ==
    IF \E d \in cols : d > c
    THEN CHOOSE d \in cols : d > c /\ \A e \in cols : e > c => d <= e
    ELSE CHOOSE d \in cols : \A e \in cols : d <= e

\* what add_row(rid, cols) has made of the structure s, as s2
AddRowPost(s, s2, rid, cols) ==
    LET old == DOMAIN s.left
        new == DOMAIN s2.left \ old
        listed == {s.columns[c + 1] : c \in cols}
    IN /\ Cardinality(new) = Cardinality(cols)
       /\ DOMAIN s2.column = DOMAIN s.column \cup new
       /\ \A n \in new : s2.row_id[n] = rid
       /\ {s2.column[n] : n \in new} = listed
       /\ s2.columns = s.columns /\ s2.name = s.name
       /\ \A n \in DOMAIN s.column :
             s2.column[n] = s.column[n] /\ s2.row_id[n] = s.row_id[n]
       /\ \A x \in old : s2.left[x] = s.left[x] /\ s2.right[x] = s.right[x]
       /\ \A c \in 0..(Len(s.columns) - 1) :
             LET col == s.columns[c + 1]
             IN IF c \in cols
                THEN LET n == NodeOfRow(s2, rid, c)
                     IN /\ n \in new
                        /\ s2.size[col] = s.size[col] + 1
                        /\ DownList(s2, col) = Append(DownList(s, col), n)
                        /\ s2.down[n] = col /\ s2.up[col] = n
                        /\ s2.up[n] = s.up[col]
                        /\ s2.down[s.up[col]] = n
                ELSE /\ s2.size[col] = s.size[col]
                     /\ DownList(s2, col) = DownList(s, col)
                     /\ s2.up[col] = s.up[col]
                     /\ s2.down[col] = s.down[col]
       /\ \A x \in old :
             /\ x \notin listed => s2.up[x] = s.up[x]
             /\ x \notin {s.up[col] : col \in listed}
                   => s2.down[x] = s.down[x]
       /\ s2.size[header] = s.size[header]
       /\ \A c \in cols :
             LET n == NodeOfRow(s2, rid, c)
                 m == NodeOfRow(s2, rid, NextListed(cols, c))
             IN s2.right[n] = m /\ s2.left[m] = n
       /\ Cardinality(cols) = 1 =>
             \A n \in new : s2.left[n] = n /\ s2.right[n] = n

\* a step of the client that adds a row
AddRowStep == op = "build" /\ Len(matrix') = Len(matrix) + 1

\* C30: add_row(row_id, column_indices) with distinct indices of existing
\* columns adds one node per listed column, at the bottom of the column's
\* vertical list below the nodes of the rows added before, and adds 1 to the
\* size of each listed column; the other columns, the header list and the
\* links of the nodes that existed are unchanged; the new nodes form one
\* circular left/right list in ascending order of their column indices, and
\* the node of a row with one column has itself as left and right.
C30_AddRowPost ==
    [][AddRowStep =>
          AddRowPost(solver, solver', Len(matrix), matrix'[Len(matrix')])]_vars

\* C30 witness: a row with three columns was added below a row that has a
\* node in each of these columns.
C30_Witness ==
    /\ op = "build"
    /\ Len(matrix) = 2
    /\ Cardinality(matrix[1]) = 3
    /\ Cardinality(matrix[2]) = 3
    /\ \A c \in Range(HeaderList(solver)) : solver.size[c] = 2

-----------------------------------------------------------------------------
(* The frame of _cover, checked under Spec *)

\* the nodes of the row of `row` after `node`, left to right, `row` excluded
RECURSIVE RowOthersFrom(_, _, _)
RowOthersFrom(s, row, node) ==
    IF node = row THEN <<>>
    ELSE <<node>> \o RowOthersFrom(s, row, s.right[node])

\* the nodes that lie in the rows of column c but in other columns
OtherNodes(s, c) ==
    UNION {Range(RowOthersFrom(s, r, s.right[r])) : r \in Range(DownList(s, c))}

\* the list without the members of the set
Without(list, S) == SelectSeq(list, LAMBDA x : x \notin S)

\* what _cover(c) makes (t) of the structure s
CoverFrame(s, t, c) ==
    LET own == Range(DownList(s, c))
        gone == OtherNodes(s, c)
        all == DOMAIN s.left
    IN  /\ t.columns = s.columns
        /\ t.name = s.name
        /\ t.column = s.column
        /\ t.row_id = s.row_id
        /\ DOMAIN t.left = all /\ DOMAIN t.right = all
        /\ DOMAIN t.up = all /\ DOMAIN t.down = all
        \* the two header neighbours of the column
        /\ \A x \in all : t.left[x] # s.left[x] => x = s.right[c]
        /\ \A x \in all : t.right[x] # s.right[x] => x = s.left[c]
        /\ t.left[s.right[c]] = s.left[c]
        /\ t.right[s.left[c]] = s.right[c]
        \* the vertical neighbours of the nodes in other columns
        /\ \A x \in all : t.up[x] # s.up[x] => \E n \in gone : x = s.down[n]
        /\ \A x \in all : t.down[x] # s.down[x] => \E n \in gone : x = s.up[n]
        \* the sizes of the other columns, once per removed node
        /\ \A d \in Range(s.columns) :
              t.size[d] = s.size[d] - Cardinality({n \in gone : s.column[n] = d})
        /\ t.size[header] = s.size[header]
        \* no left/right link of a row node
        /\ \A x \in DOMAIN s.column :
              t.left[x] = s.left[x] /\ t.right[x] = s.right[x]
        \* nothing stored in the covered column or in its nodes
        /\ t.size[c] = s.size[c]
        /\ \A x \in own \cup {c} :
              /\ t.left[x] = s.left[x] /\ t.right[x] = s.right[x]
              /\ t.up[x] = s.up[x] /\ t.down[x] = s.down[x]
        \* the column leaves the header list; the rows that do not intersect
        \* it stay where they are in the vertical lists of the other columns
        /\ HeaderList(t) = Without(HeaderList(s), {c})
        /\ \A d \in Range(HeaderList(t)) :
              DownList(t, d) = Without(DownList(s, d), gone)

\* C31: _cover(column), for every column of the header list in every state
\* of building and searching, changes only the left link of the column's
\* right header neighbour and the right link of its left header neighbour,
\* up/down links of vertical neighbours of the nodes that lie in rows of the
\* column but in other columns, and the sizes of those other columns, each
\* decremented once per such node; it changes no left/right link of any row
\* node and nothing stored in the covered column or in its nodes, and the
\* rows that do not intersect the column stay linked in their columns.
C31_CoverFrame ==
    \A c \in Range(HeaderList(solver)) :
        CoverFrame(solver, _cover(solver, c), c)

\* C31 witness: search() has just covered a column that had two header
\* neighbours and two rows; a node of a row that does not intersect the
\* column, vertical neighbour of a removed node, had its up link changed.
C31_Witness ==
    /\ Running("loop")
    /\ Top.row = solver.down[Top.column]
    /\ LET c == Top.column
           s == _uncover(solver, c)
       IN /\ _cover(s, c) = solver
          /\ s.left[c] # s.right[c]
          /\ s.size[c] = 2
          /\ \E x \in DOMAIN s.column :
                /\ x \notin OtherNodes(s, c)
                /\ x \notin Range(DownList(s, c))
                /\ solver.up[x] # s.up[x]

-----------------------------------------------------------------------------
(* Dead columns, checked under SpecSteps *)

\* a column of the header list has no row left: the column a search call
\* chooses, one of the smallest, then has size 0
HasEmptyColumn ==
    \E c \in Range(HeaderList(solver)) : solver.size[c] = 0

\* the call returns: its frame is dropped, no frame is added, and the
\* structure, the partial solution and the solutions yielded are unchanged
DeadReturn ==
    /\ stack' = SubSeq(stack, 1, Len(stack) - 1)
    /\ solver' = solver
    /\ solution' = solution
    /\ yielded' = yielded
    /\ selected' = selected

\* one event of the given type is emitted, with the partial solution as
\* its state
EmitsOnly(type) ==
    /\ Len(history') = Len(history) + 1
    /\ SubSeq(history', 1, Len(history)) = history
    /\ history'[Len(history')].type = type
    /\ history'[Len(history')].state = RowIds(solver, solution)

DeadStep ==
    /\ (Running("start") /\ HasEmptyColumn) =>
          DeadReturn /\ history' = history
    /\ (StepsRunning("start") /\ HasEmptyColumn) =>
          /\ EmitsOnly("CHOOSE_COL")
          /\ history'[Len(history')].data.size = 0
          /\ Len(stack') = Len(stack)
          /\ Top'.pc = "chosen"
          /\ solver.size[Top'.column] = 0
          /\ UNCHANGED <<solver, solution, yielded, selected>>
    /\ (StepsRunning("chosen") /\ solver.size[Top.column] = 0) =>
          DeadReturn /\ EmitsOnly("BACKTRACK")

\* C32: a search call of solve() whose chosen column has size 0 returns in
\* its next step, and a search call of solve_steps() returns after its
\* CHOOSE_COL and BACKTRACK events: no solution is yielded, no row is
\* selected, no column is covered, no deeper call is made, and the link
\* structure and the partial solution are as they were.
C32_DeadColumnReturns == [][DeadStep]_vars

\* C32 witness: solve_steps(), after solve() on the same matrix, has just
\* returned from a nested call on a dead column: the last two events are
\* the CHOOSE_COL of a column of size 0 and the BACKTRACK, with a row
\* selected.
C32_Witness ==
    /\ op = "solve_steps"
    /\ Len(log) = 1
    /\ gen = "stepping"
    /\ Len(stack) >= 1
    /\ solution # <<>>
    /\ Len(history) >= 2
    /\ history[Len(history)].type = "BACKTRACK"
    /\ history[Len(history) - 1].type = "CHOOSE_COL"
    /\ history[Len(history) - 1].data.size = 0
    /\ HasEmptyColumn

-----------------------------------------------------------------------------
(* The CHOOSE_COL event, checked under SpecSteps *)

\* the columns of the header list, in header order, each with its size
CandidatesNow ==
    [i \in 1..Len(HeaderList(solver)) |->
        [name |-> solver.name[HeaderList(solver)[i]],
         size |-> solver.size[HeaderList(solver)[i]]]]

\* the chosen column of the event is the first of its candidates with the
\* least size, and the size field is that size
ChoiceOK(e) ==
    LET cands == e.data.candidates
    IN \E i \in 1..Len(cands) :
          /\ cands[i].name = e.data.chosen
          /\ cands[i].size = e.data.size
          /\ \A j \in 1..Len(cands) : cands[j].size >= cands[i].size
          /\ \A j \in 1..(i - 1) : cands[j].size > cands[i].size

\* solve_steps has just emitted a CHOOSE_COL event
JustChosen ==
    /\ StepsRunning("chosen")
    /\ history # <<>>
    /\ history[Len(history)].type = "CHOOSE_COL"

\* C33: a CHOOSE_COL event, when it is emitted, lists as candidates all the
\* columns of the header list, in header order, each with its current size;
\* in every CHOOSE_COL event collected, the chosen column is one of the
\* candidates, the size field is that candidate's size, the size is the
\* least over the candidates, and the chosen column is the first candidate
\* with that size.
C33_ChooseColEvent ==
    /\ StepsRunning("chosen") => JustChosen
    /\ JustChosen =>
          /\ history[Len(history)].data.candidates = CandidatesNow
          /\ history[Len(history)].data.chosen = solver.name[Top.column]
    /\ \A i \in 1..Len(history) :
          history[i].type = "CHOOSE_COL" => ChoiceOK(history[i])

\* C33 witness: a nested call has emitted a CHOOSE_COL event while one
\* column is covered: two candidates are listed, the first of them larger
\* than the chosen one.
C33_Witness ==
    /\ JustChosen
    /\ Len(stack) = 2
    /\ LET e == history[Len(history)]
       IN /\ Len(e.data.candidates) = 2
          /\ e.data.candidates[1].size > e.data.candidates[2].size
          /\ e.data.chosen = e.data.candidates[2].name
          /\ e.data.size = 1

\* a CHOOSE_COL event at the outermost call: three candidates, the last two
\* tied for the least size, the first of the two chosen
C33_WitnessTie ==
    /\ JustChosen
    /\ LET e == history[Len(history)]
       IN /\ Len(e.data.candidates) = 3
          /\ e.data.candidates[1].size > e.data.candidates[2].size
          /\ e.data.candidates[3].size = e.data.candidates[2].size
          /\ e.data.chosen = e.data.candidates[2].name

-----------------------------------------------------------------------------
(* The narrative context of SELECT_ROW events, checked under SpecSteps *)

\* the search depth an event was emitted at: a call at depth d holds d rows
\* when it chooses its column and d + 1 rows when it has selected one
DepthOf(e) ==
    IF e.type = "SELECT_ROW" THEN Len(e.state) - 1 ELSE Len(e.state)

\* the positions before i of the CHOOSE_COL events of the depth of event i
ChoicesBefore(events, i) ==
    {j \in 1..(i - 1) : /\ events[j].type = "CHOOSE_COL"
                        /\ DepthOf(events[j]) = DepthOf(events[i])}

\* the position of the CHOOSE_COL event that opened the column frame the
\* SELECT_ROW event i belongs to
ChoiceOf(events, i) == Max(ChoicesBefore(events, i))

\* the SELECT_ROW events of that column frame up to event i
OptionsUpTo(events, i) ==
    {k \in (ChoiceOf(events, i) + 1)..i :
        /\ events[k].type = "SELECT_ROW"
        /\ DepthOf(events[k]) = DepthOf(events[i])}

\* the narrative context the SELECT_ROW event i is to carry
NarrativeOK(events, i) ==
    /\ ChoicesBefore(events, i) # {}
    /\ "narrative_ctx" \in DOMAIN events[i]
    /\ LET ctx == events[i].narrative_ctx
           choice == events[ChoiceOf(events, i)]
       IN /\ ctx.col = choice.data.chosen
          /\ ctx.total_options = choice.data.size
          /\ ctx.option_idx = Cardinality(OptionsUpTo(events, i))
          /\ 1 <= ctx.option_idx
          /\ ctx.option_idx <= ctx.total_options

AllNarrativeOK(events) ==
    \A i \in 1..Len(events) :
        events[i].type = "SELECT_ROW" => NarrativeOK(events, i)

\* solve_steps has just emitted a SELECT_ROW event
JustSelected ==
    /\ StepsRunning("cover")
    /\ Top.node = solver.right[Top.row]
    /\ history # <<>>
    /\ history[Len(history)].type = "SELECT_ROW"

\* C34: when solve_steps emits a SELECT_ROW event, the CHOOSE_COL event of
\* the same depth before it names the column of the call and that column's
\* size, and the SELECT_ROW events of the call so far are as many as the
\* position of the selected row among the column's rows; in the list
\* process_history builds and returns, every SELECT_ROW event carries a
\* narrative_ctx with that column as col, that size as total_options and
\* that position as option_idx, so 1 <= option_idx <= total_options and the
\* option indices of one column frame are 1, 2, ... in order.
C34_NarrativeContext ==
    /\ JustSelected =>
          LET n == Len(history)
              rows == DownList(solver, Top.column)
          IN /\ ChoicesBefore(history, n) # {}
             /\ history[ChoiceOf(history, n)].data.chosen
                   = solver.name[Top.column]
             /\ history[ChoiceOf(history, n)].data.size = Len(rows)
             /\ history[n].data.row = solver.row_id[Top.row]
             /\ Top.row \in Range(rows)
             /\ Cardinality(OptionsUpTo(history, n)) = PositionIn(rows, Top.row)
    /\ op = "process_history" => AllNarrativeOK(processed)
    /\ \A k \in StepsRuns : AllNarrativeOK(log[k].ret.value)

\* C34 witness: process_history has returned a list in which a SELECT_ROW
\* event of a nested call is option 2 of 2 of its column.
C34_Witness ==
    \E k \in StepsRuns :
        \E i \in 1..Len(log[k].ret.value) :
            LET e == log[k].ret.value[i]
            IN /\ e.type = "SELECT_ROW"
               /\ Len(e.state) = 2
               /\ e.narrative_ctx.option_idx = 2
               /\ e.narrative_ctx.total_options = 2

-----------------------------------------------------------------------------
(* The nesting of the events of solve_steps, checked under SpecSteps *)

Failed(rows, cols) == [ok |-> FALSE, rows |-> rows, cols |-> cols]

\* the events from position i on are read with the rows selected and not
\* yet unselected, and the columns covered and not yet uncovered, innermost
\* last; the reading fails at an UNSELECT_ROW or UNCOVER_COL that does not
\* name the innermost one
RECURSIVE Nesting(_, _, _, _)
Nesting(events, i, rows, cols) ==
    IF i > Len(events) THEN [ok |-> TRUE, rows |-> rows, cols |-> cols]
    ELSE LET e == events[i]
         IN CASE e.type = "SELECT_ROW" ->
                    Nesting(events, i + 1, Append(rows, e.data.row), cols)
              [] e.type = "UNSELECT_ROW" ->
                    IF rows # <<>> /\ rows[Len(rows)] = e.data.row
                    THEN Nesting(events, i + 1,
                                 SubSeq(rows, 1, Len(rows) - 1), cols)
                    ELSE Failed(rows, cols)
              [] e.type = "COVER_COL" ->
                    Nesting(events, i + 1, rows, Append(cols, e.data.col))
              [] e.type = "UNCOVER_COL" ->
                    IF cols # <<>> /\ cols[Len(cols)] = e.data.col
                    THEN Nesting(events, i + 1, rows,
                                 SubSeq(cols, 1, Len(cols) - 1))
                    ELSE Failed(rows, cols)
              [] OTHER -> Nesting(events, i + 1, rows, cols)

\* a trace, complete or not, is properly nested so far
NestedSoFar(events) == Nesting(events, 1, <<>>, <<>>).ok

\* a complete trace: everything selected is unselected, everything covered
\* is uncovered, and the last event has the empty state
NestedAndClosed(events) ==
    /\ Nesting(events, 1, <<>>, <<>>) = [ok |-> TRUE, rows |-> <<>>, cols |-> <<>>]
    /\ events # <<>>
    /\ events[Len(events)].state = <<>>

\* the traces of solve_steps that were run to exhaustion
ExhaustedRuns == {k \in StepsRuns : log[k].ended = "exhausted"}

\* C35: in a trace of solve_steps every UNSELECT_ROW names the row of the
\* most recent SELECT_ROW not yet unselected and every UNCOVER_COL names the
\* column of the most recent COVER_COL not yet uncovered; in a trace run to
\* exhaustion every SELECT_ROW and every COVER_COL is matched that way and
\* the state of the last event is empty.
C35_EventsNested ==
    /\ op = "solve_steps" => NestedSoFar(history)
    /\ (op = "solve_steps" /\ gen = "done") => NestedAndClosed(history)
    /\ \A k \in ExhaustedRuns : NestedAndClosed(log[k].yielded)

\* C35 witness: a trace run to exhaustion, with a SOLUTION on the way, in
\* which a column was covered, and a row selected, inside another.
C35_Witness ==
    \E k \in ExhaustedRuns :
        LET events == log[k].yielded
        IN /\ \E i \in 1..Len(events) : events[i].type = "SOLUTION"
           /\ \E i \in 1..Len(events) :
                 events[i].type = "COVER_COL" /\ Len(events[i].state) = 1
           /\ \E i \in 1..Len(events) :
                 events[i].type = "UNSELECT_ROW" /\ Len(events[i].state) = 1

-----------------------------------------------------------------------------
(* The BACKTRACK events of solve_steps, checked under SpecTrace *)

\* a CHOOSE_COL event whose chosen column has no row
IsDeadChoice(e) == e.type = "CHOOSE_COL" /\ e.data.size = 0

\* an UNCOVER_COL event of a call below the outermost one: the calls above
\* it have a row selected each
IsNestedUncover(e) == e.type = "UNCOVER_COL" /\ Len(e.state) > 0

IsRootUncover(e) == e.type = "UNCOVER_COL" /\ Len(e.state) = 0

ExhaustedReason == "Tried all options for this column, going back."

\* the BACKTRACK events of a trace and what they follow
BacktrackOK(events) ==
    \A i \in 1..Len(events) :
        /\ events[i].type = "BACKTRACK" =>
              /\ i > 1
              /\ \/ /\ IsDeadChoice(events[i - 1])
                    /\ events[i].data.reason # ExhaustedReason
                 \/ /\ IsNestedUncover(events[i - 1])
                    /\ events[i].data.reason = ExhaustedReason
              /\ events[i].state = events[i - 1].state
        /\ (i < Len(events) /\ IsDeadChoice(events[i])) =>
              events[i + 1].type = "BACKTRACK"
        /\ (i < Len(events) /\ IsNestedUncover(events[i])) =>
              events[i + 1].type = "BACKTRACK"
        /\ IsRootUncover(events[i]) => i = Len(events)

\* the last event of a trace whose generator is exhausted
EndOK(events) ==
    /\ events # <<>>
    /\ ~IsDeadChoice(events[Len(events)])
    /\ ~IsNestedUncover(events[Len(events)])

\* C36: a BACKTRACK event of solve_steps directly follows either a
\* CHOOSE_COL event whose chosen column has size 0, or the UNCOVER_COL event
\* of a call at depth greater than 0, and carries the same state; each such
\* CHOOSE_COL and each such UNCOVER_COL is directly followed by a BACKTRACK,
\* so the call on a dead column emits no COVER_COL and no UNCOVER_COL; the
\* UNCOVER_COL of the outermost call is the last event of the trace, no
\* BACKTRACK follows it.
C36_BacktrackEvents ==
    /\ op = "solve_steps" => BacktrackOK(history)
    /\ (op = "solve_steps" /\ gen = "done") => EndOK(history)
    /\ (op = "solve_steps" /\ history # <<>>
        /\ IsDeadChoice(history[Len(history)])) => StepsRunning("chosen")
    /\ (op = "solve_steps" /\ history # <<>>
        /\ IsNestedUncover(history[Len(history)])) =>
          StepsRunning("uncovered") /\ Len(stack) > 1

\* C36 witness: an exhausted trace with a BACKTRACK after a dead CHOOSE_COL,
\* a BACKTRACK after the UNCOVER_COL of a nested call, and the UNCOVER_COL
\* of the outermost call as its last event.
C36_Witness ==
    /\ op = "solve_steps"
    /\ gen = "done"
    /\ IsRootUncover(history[Len(history)])
    /\ \E i \in 2..Len(history) :
          history[i].type = "BACKTRACK" /\ IsDeadChoice(history[i - 1])
    /\ \E i \in 2..Len(history) :
          history[i].type = "BACKTRACK" /\ IsNestedUncover(history[i - 1])

-----------------------------------------------------------------------------
(* Solvers without columns or without rows, checked under SpecReuse *)

\* DLXSolver(0): the header list is empty from the start
ZeroColumns == Len(solver.columns) = 0

\* a solver with columns on which add_row was never called
ColumnsNoRows == Len(solver.columns) >= 1 /\ matrix = <<>>

\* C37: on a solver with zero columns a solve() that is run to its end has
\* yielded exactly one solution, the empty row list, and solve_one() returns
\* that empty list, not None; on a solver with at least one column and no
\* rows solve() yields nothing.
C37_DegenerateSolvers ==
    /\ ZeroColumns =>
          /\ yielded \in {<<>>, << <<>> >>}
          /\ gen = "done" => yielded = << <<>> >>
          /\ \A k \in 1..Len(log) :
                /\ (log[k].op = "solve" /\ log[k].ended = "exhausted") =>
                      log[k].yielded = << <<>> >>
                /\ log[k].op = "solve_one" =>
                      ~log[k].ret.isNone /\ log[k].ret.value = <<>>
    /\ ColumnsNoRows =>
          /\ yielded = <<>>
          /\ \A k \in 1..Len(log) :
                log[k].op = "solve" => log[k].yielded = <<>>

\* C37 witness: on a solver with zero columns solve_one() has returned []
\* and a solve() after it has ended with the one empty solution.
C37_Witness ==
    /\ ZeroColumns
    /\ Len(log) = 2
    /\ log[1].op = "solve_one"
    /\ log[1].ret = Value(<<>>)
    /\ log[2].op = "solve"
    /\ log[2].ended = "exhausted"
    /\ log[2].yielded = << <<>> >>

\* on a solver with two columns and no rows solve() has ended
C37_WitnessNoRows ==
    /\ ColumnsNoRows
    /\ Len(solver.columns) = 2
    /\ log # <<>>
    /\ log[1].op = "solve"
    /\ log[1].ended = "exhausted"

-----------------------------------------------------------------------------
(* C38, checked under SpecCalls *)

\* the function a kept result came from; the record of a solve_for_date call
\* has no op field
KeptOp(e) == IF "op" \in DOMAIN e THEN e.op ELSE "solve_for_date"

\* the ids of the set objects a kept result refers to
RefsOf(e) == IF "refs" \in DOMAIN e THEN Range(e.refs) ELSE {}

\* the set objects the results kept so far refer to
KeptRefs == UNION {RefsOf(log[k]) : k \in 1..Len(log)}

\* the tables have the content they had before the step
TablesKept ==
    /\ MONTH_COORDS' = MONTH_COORDS
    /\ DAY_COORDS' = DAY_COORDS
    /\ ILLEGAL_CELLS' = ILLEGAL_CELLS
    /\ PIECE_SHAPES' = PIECE_SHAPES

\* every result kept before the step is the same after it: the record, and
\* the content of every set it refers to
ResultsKept ==
    /\ Len(log') >= Len(log)
    /\ \A k \in 1..Len(log) :
          /\ log'[k] = log[k]
          /\ \A r \in RefsOf(log[k]) :
                /\ r \in DOMAIN heap
                /\ r \in DOMAIN heap'
                /\ heap'[r] = heap[r]

\* the sets of a result that the step adds are objects the call has made:
\* none existed before the call, none is a set of an earlier result, and no
\* two are the same object
ResultIsNew ==
    Len(log') > Len(log) =>
        LET e == log'[Len(log')]
        IN /\ \A r \in RefsOf(e) :
                 /\ r > Len(heap)
                 /\ r \in DOMAIN heap'
                 /\ r \notin KeptRefs
           /\ "refs" \in DOMAIN e =>
                 \A i, j \in DOMAIN e.refs : e.refs[i] = e.refs[j] => i = j

\* C38: no step of any sequence of calls of playable_cells_for_date,
\* generate_orientations (through all_piece_orientations),
\* generate_placements, build_exact_cover and solve_for_date changes
\* MONTH_COORDS, DAY_COORDS, ILLEGAL_CELLS or PIECE_SHAPES, and the sets a
\* call returns are new objects that no earlier call returned and that no
\* later call changes.
C38_TablesAndResultsKept ==
    [][TablesKept /\ ResultsKept /\ ResultIsNew]_vars

\* one kept set of playable cells of a date that a later call of
\* playable_cells_for_date for another date followed, each with the cells of
\* its own date removed, and a kept dict of orientations made from the
\* shapes of PIECE_SHAPES
C38_Witness ==
    \E i, j, k \in 1..Len(log) :
        /\ i < j
        /\ KeptOp(log[i]) = "playable_cells_for_date"
        /\ KeptOp(log[j]) = "playable_cells_for_date"
        /\ log[i].refs # <<>>
        /\ log[j].refs # <<>>
        /\ <<log[i].month, log[i].day>> # <<log[j].month, log[j].day>>
        /\ log[i].refs[1] # log[j].refs[1]
        /\ heap[log[i].refs[1]]
              = playable_cells_for_date(log[i].month, log[i].day).value
        /\ heap[log[j].refs[1]]
              = playable_cells_for_date(log[j].month, log[j].day).value
        /\ heap[log[i].refs[1]] # heap[log[j].refs[1]]
        /\ KeptOp(log[k]) = "all_piece_orientations"
        /\ Len(log[k].refs) > Len(PIECE_SHAPES)

\* a call of solve_for_date that returned after a set of playable cells was
\* kept, and a call of generate_placements on kept arguments
C38_WitnessSolve ==
    \E i, j \in 1..Len(log) :
        /\ i < j
        /\ KeptOp(log[i]) = "playable_cells_for_date"
        /\ log[i].refs # <<>>
        /\ KeptOp(log[j]) \in {"solve_for_date", "generate_placements"}
        /\ op = "idle"

-----------------------------------------------------------------------------
(* C39, checked under SpecViz *)

\* VizState(month, day) has returned
Constructed == op = "idle" /\ log # <<>>

\* the number of piece columns of the matrix: build_exact_cover puts one
\* column for each piece before the columns of the cells
NumPieceColumns == Len(PieceNames)

\* the index of the first label of column_labels that is the label of a
\* cell, the number of labels if there is none
FirstCellColumn ==
    LET cell_labels == {CellLabel(<<r, c>>) : r \in 0..(BOARD_ROWS - 1),
                                               c \in 0..(BOARD_COLS - 1)}
        at == {i \in 1..Len(column_labels) : column_labels[i] \in cell_labels}
    IN IF at = {} THEN Len(column_labels)
       ELSE (CHOOSE i \in at : \A j \in at : i <= j) - 1

\* C39 as stated: after VizState is constructed, num_piece_cols is the
\* number of piece columns, 9, which is the index of the first cell column
\* in column_labels, and a column index c is below num_piece_cols exactly
\* when c is a piece column.
C39_NumPieceCols ==
    Constructed =>
        /\ num_piece_cols = NumPieceColumns
        /\ num_piece_cols = 9
        /\ num_piece_cols = FirstCellColumn
        /\ \A c \in 0..(Len(column_labels) - 1) :
              (c < num_piece_cols) <=> (c < NumPieceColumns)

\* what the constructor leaves: every label is a str, the loop of lines
\* 219-223 never breaks, and num_piece_cols is the number of all columns,
\* the nine piece columns and the cell columns
C39_CountsAllColumns ==
    Constructed =>
        /\ NumPieceColumns = 9
        /\ FirstCellColumn = 9
        /\ num_piece_cols = Len(column_labels)
        /\ num_piece_cols = 9 + Len(CellsSorted(args.month, args.day))
        /\ num_piece_cols > NumPieceColumns

C39_Reached == Constructed /\ num_piece_cols = 50

====
